---- MODULE Spec2Model ----
(***************************************************************************)
(* A model of the bridging engine of matrix-appservice-slack:              *)
(*   - SlackGhost        (src/src/SlackGhost.ts, lines 41-454)             *)
(*   - SlackHookHandler  (src/src/SlackGhost.ts, lines 508-904)            *)
(*   - PgDatastore       (src/src/datastore/postgres/PgDatastore.ts)       *)
(* Every asynchronous function is a coroutine: one action is one           *)
(* synchronous segment of its body, from one await to the next.  A call to *)
(* a collaborator is issued at the end of a segment and its outcome        *)
(* (fulfilled with some value, or rejected) is drawn when it resumes.      *)
(***************************************************************************)
EXTENDS Integers, Sequences, FiniteSets, TLC

(***************************************************************************)
(* Bounds of the model.                                                    *)
(***************************************************************************)
\* number of update() invocations on the ghost
NUpd == 2

(***************************************************************************)
(* Values.                                                                 *)
(***************************************************************************)
\* A string is a sequence of characters (or of longer tokens where the
\* characters do not matter); NONE is JavaScript's undefined.
NONE == << "<undefined>" >>

Truthy(s) == s # NONE /\ s # << >>

\* a || b on optional strings
OrElse(a, b) == IF Truthy(a) THEN a ELSE b

Calls == 1..NUpd

\* config.display_name_suffix
Suffix == << " (Slack)" >>

\* The fields of the message that update() reads (lines 91, 158, 256), and
\* whether the room has a SlackClient.
Msg(username, user_name, bot, user) ==
    [username |-> username, user_name |-> user_name, bot_id |-> bot, user_id |-> user]

NoMsg == Msg(NONE, NONE, FALSE, FALSE)

Messages ==
    { Msg(NONE, NONE, FALSE, TRUE),
      Msg(NONE, NONE, TRUE, FALSE),
      Msg(<<"erin">>, NONE, TRUE, TRUE),
      Msg(NONE, <<"carol">>, FALSE, FALSE),
      Msg(<<"dave">>, NONE, FALSE, TRUE),
      NoMsg }

\* What users.info can answer: a rejection, a response without user, a user
\* without profile, or a user with a profile.  name is
\* profile.display_name || profile.real_name, url the largest image defined.
Resp(kind, name, url, hash) == [kind |-> kind, name |-> name, url |-> url, hash |-> hash]

NoResp == Resp("none", NONE, NONE, NONE)
Pending == Resp("pending", NONE, NONE, NONE)

UserResponses ==
    { Resp("rejected", NONE, NONE, NONE),
      Resp("nouser", NONE, NONE, NONE),
      Resp("noprofile", NONE, NONE, NONE),
      Resp("user", <<"alice">>, <<"https://a/img1">>, <<"h1">>),
      Resp("user", <<"bob">>, <<"https://a/img2">>, NONE),
      Resp("user", NONE, NONE, NONE) }

\* What bots.info can answer: a rejection, ok = false, or a bot.
BotResponses ==
    { Resp("rejected", NONE, NONE, NONE),
      Resp("notok", NONE, NONE, NONE),
      Resp("bot", <<"hal">>, <<"https://b/icon">>, NONE),
      Resp("bot", NONE, NONE, NONE) }

VARIABLES
    \* ---- SlackGhost (one ghost) ----
    updateInProgress,   \* line 62
    displayname,        \* line 69
    avatarHash,         \* line 70
    userInfoCache,      \* line 59
    userInfoLoading,    \* line 61: 0, or the fetch whose promise it holds
    cacheTimers,        \* pending setTimeout callbacks of line 251
    fetchResp,          \* fetch -> NoResp (not issued), Pending, or its response
    fetchBy,            \* fetch -> the coroutine that issued it
    upc,                \* update() call -> "new", "awaiting", "done", "dropped", "threw"
    msg,                \* update() call -> its message
    client,             \* update() call -> whether room.SlackClient is set
    dpc,                \* update() call -> position of updateDisplayname
    dname,              \* update() call -> displayName of updateDisplayname
    dsnap,              \* update() call -> entry handed to upsertUser by updateDisplayname
    apc,                \* update() call -> position of updateAvatar
    aurl,               \* update() call -> avatarUrl of updateAvatar
    ahash,              \* update() call -> hash of updateAvatar
    asnap,              \* update() call -> entry handed to upsertUser by updateAvatar
    lkOn,               \* coroutine -> the fetch it awaits in lookupUserInfo
    lkVal,              \* coroutine -> the user lookupUserInfo returned to it
    mutCalls,           \* Matrix-side calls issued by updates still running: <<call, primitive>>
    startedDuring,      \* update() call -> another update() was running when it started
    arrivedDuring,      \* coroutine -> the fetch in flight when it entered lookupUserInfo
    \* ---- PgDatastore: tables ----
    users,              \* rows of the users table
    events,             \* rows of the events table
    consEvents,         \* which unique key of events is cons_events_unique
    schemaVersion,      \* the version row of the schema table (0: no table yet)
    applied,            \* the migrations run on the database, in order
    \* ---- a SlackGhost object and its upsertUser calls ----
    obj,                \* the ghost last constructed
    objRaw,             \* the ids its constructor was given
    lastUpsert,         \* user id -> entry of the latest upsertUser call, and whether it replaced another
    \* ---- upsertEvent calls ----
    lastEvent,          \* what the latest upsertEvent call was given and how it ended
    \* ---- PgDatastore.ensureSchema ----
    epc,                \* position of ensureSchema
    currentVersion,     \* its local variable
    startVersion,       \* the stored version when the call read it
    runSteps,           \* the migrations this call has started, in order
    versionWrites,      \* the versions this call has stored, in order
    failAt,             \* the step at which this call failed, and where
    runs,               \* ensureSchema calls so far
    \* ---- SlackGhost send operations ----
    spc,                \* send -> position
    sop,                \* send -> operation and arguments
    sevent,             \* send -> the event the local platform returned
    delivered,          \* send -> the local platform accepted the message
    upsertCalls,        \* send -> the upsertEvent calls it made, in order
    eventStore,         \* the entries the datastore has acknowledged
    nextEventId,        \* the local platform's next event id
    \* ---- SlackHookHandler.lookupMessage ----
    lpc,                \* position of lookupMessage
    largs,              \* its arguments
    lquery,             \* the conversations.history query it made
    lresp,              \* the response to it
    lmessage,           \* the message picked
    lresult,            \* what lookupMessage returned or threw
    lshare,             \* outcome of enablePublicSharing
    lfetch,             \* outcome of fetchFileContent
    \* ---- SlackHookHandler.handleAuthorize ----
    hpc,                \* position of handleAuthorize
    hreq,               \* its arguments and the bridge's configuration
    hresp,              \* the response of the code exchange
    hcalls,             \* the collaborator calls it made, in order
    hresult,            \* the page it returned
    limitHit,           \* willExceedTeamLimit answered true
    revokeOutcome,      \* how the revoke attempt ended
    tokenWrite,         \* how the setUserAccessToken of the request ended
    accessTokens,       \* what setUserAccessToken has persisted
    teams,              \* what upsertTeamByToken has persisted
    nreq                \* authorize requests so far

VARIABLES
    \* ---- a record of the profile syncs of the ghost (history) ----
    tracing,            \* whether the record is kept in this specification
    dres,               \* update() call -> the name updateDisplayname resolved
    ares,               \* update() call -> the url and hash updateAvatar resolved
    prev,               \* the update() call that returned last
    afterExpiry         \* the first lookupUserInfo since the cache expired last

syncVars == << tracing, dres, ares, prev, afterExpiry >>

ghostVars == << updateInProgress, displayname, avatarHash, userInfoCache,
                userInfoLoading, cacheTimers, fetchResp, fetchBy,
                upc, msg, client, dpc, dname, dsnap, apc, aurl, ahash, asnap,
                lkOn, lkVal, mutCalls, startedDuring, arrivedDuring, syncVars >>

tableVars == << users, events, consEvents, schemaVersion, applied >>
objVars == << obj, objRaw, lastUpsert >>
evVars == << lastEvent >>
schemaVars == << epc, currentVersion, startVersion, runSteps, versionWrites, failAt, runs >>
sendVars == << spc, sop, sevent, delivered, upsertCalls, eventStore, nextEventId >>
lookupVars == << lpc, largs, lquery, lresp, lmessage, lresult, lshare, lfetch >>
authVars == << hpc, hreq, hresp, hcalls, hresult, limitHit, revokeOutcome,
               tokenWrite, accessTokens, teams, nreq >>

VARIABLES
    \* ---- SlackHookHandler.getUrlParts ----
    gurl,               \* its argument
    gparts              \* what it returned or threw

VARIABLES
    \* ---- SlackHookHandler.onRequest: one request ----
    wpc,                \* position of its handling
    wreq,               \* the request
    wres,               \* the response: what was written to it
    wtimer              \* the outcomes handed to endTimer, in order

VARIABLES
    \* ---- SlackGhost typing relay ----
    typingInRooms,      \* line 60
    typingCalls,        \* the intent.sendTyping calls made, in order
    roomOp,             \* room -> the latest typing operation on it
    tlast,              \* the latest typing operation and what it did
    tops                \* typing operations so far

VARIABLES
    \* ---- PgDatastore: activity metrics ----
    activities,         \* rows of the metrics_activities table, in insertion order
    alast,              \* the latest upsertActivityMetrics call and the rows before it
    aresult,            \* what the latest getActiveRoomsPerTeam returned
    aops                \* upsertActivityMetrics calls so far

VARIABLES
    \* ---- PgDatastore: admin rooms ----
    adminRooms,         \* rows of the user_admin_rooms table
    adlast,             \* the latest setUserAdminRoom call and how it ended
    adops               \* setUserAdminRoom calls so far

VARIABLES
    \* ---- the embedded backend: activity metrics ----
    efacts,             \* its activity facts
    elast,              \* the latest upsertActivityMetrics call it was given
    eresult,            \* what its latest getActiveRoomsPerTeam returned
    eseen               \* how many of the upsertActivityMetrics calls it was given

VARIABLES
    \* ---- SlackHookHandler: what handling the request called ----
    wpost,              \* the parameters of a post and the room it is for
    wcalls,             \* the collaborator calls made for the request, in order
    wlookup             \* how the lookupMessage of the request ended

VARIABLES
    \* ---- SlackGhost.updateFromISlackUser (one call at a time) ----
    fpc,                \* position of updateFromISlackUser
    fuser,              \* its slackUser
    fchanged,           \* its local variable changed
    fsnap,              \* the entry it handed to upsertUser
    fruns               \* updateFromISlackUser calls so far

VARIABLES
    \* ---- PgDatastore: the rooms table ----
    roomRows,           \* rows of the rooms table
    rfirst,             \* id -> the entry of the first upsertRoom made for it
    rlatest,            \* id -> the entry of the latest upsertRoom made for it
    rlast,              \* the latest upsertRoom call and the table before it
    rops                \* upsertRoom calls so far

urlVars == << gurl, gparts >>
roomVars == << roomRows, rfirst, rlatest, rlast, rops >>
fromVars == << fpc, fuser, fchanged, fsnap, fruns >>
embedVars == << efacts, elast, eresult, eseen >>
adminVars == << adminRooms, adlast, adops >>
metricVars == << activities, alast, aresult, aops >>
typingVars == << typingInRooms, typingCalls, roomOp, tlast, tops >>
hookVars == << wpc, wreq, wres, wtimer, wpost, wcalls, wlookup >>

\* the components above; each of those below is listed in moreVars
coreVars == << ghostVars, tableVars, objVars, evVars, schemaVars, sendVars, lookupVars,
               authVars >>
moreVars == << urlVars, hookVars, typingVars, metricVars, adminVars, embedVars,
              fromVars, roomVars >>

vars == << coreVars, moreVars >>

\* what the actions of one component leave alone
ghostOthers == << events, consEvents, schemaVersion, applied, objVars, evVars,
                 schemaVars, sendVars, lookupVars, authVars, moreVars >>
userOthers == << ghostVars, events, consEvents, schemaVersion, applied, evVars,
                schemaVars, sendVars, lookupVars, authVars, moreVars >>
eventOthers == << ghostVars, users, schemaVersion, applied, objVars, schemaVars,
                 sendVars, lookupVars, authVars, moreVars >>
schemaOthers == << ghostVars, users, events, consEvents, objVars, evVars, sendVars,
                  lookupVars, authVars, moreVars >>
sendOthers == << ghostVars, tableVars, objVars, evVars, schemaVars, lookupVars,
                authVars, moreVars >>
lookupOthers == << ghostVars, tableVars, objVars, evVars, schemaVars, sendVars,
                  authVars, moreVars >>
authOthers == << ghostVars, tableVars, objVars, evVars, schemaVars, sendVars,
                lookupVars, moreVars >>
urlOthers == << coreVars, hookVars, typingVars, metricVars, adminVars, embedVars,
              fromVars, roomVars >>
hookOthers == << coreVars, urlVars, typingVars, metricVars, adminVars, embedVars,
              fromVars, roomVars >>
typingOthers == << coreVars, urlVars, hookVars, metricVars, adminVars, embedVars,
              fromVars, roomVars >>
metricOthers == << coreVars, urlVars, hookVars, typingVars, adminVars, embedVars,
              fromVars, roomVars >>
adminOthers == << coreVars, urlVars, hookVars, typingVars, metricVars, embedVars,
              fromVars, roomVars >>
embedOthers == << coreVars, urlVars, hookVars, typingVars, metricVars, adminVars,
              fromVars, roomVars >>
roomOthers == << coreVars, urlVars, hookVars, typingVars, metricVars, adminVars,
              embedVars, fromVars >>

Sides == {"dn", "av"}
Subs == Calls \X Sides
\* each coroutine issues at most one users.info call
Fetches == 1..(2 * NUpd)

(***************************************************************************)
(* SlackGhost: constructor and toEntry (lines 63-89).                      *)
(***************************************************************************)
\* Identifiers are sequences of characters, so that case is visible.
LowerChars == {"a", "b", "u"}
UpperOf(ch) ==
    CASE ch = "a" -> "A"
      [] ch = "b" -> "B"
      [] ch = "u" -> "U"
      [] OTHER -> ch

\* String.prototype.toUpperCase
ToUpperCase(s) == [i \in 1..Len(s) |-> UpperOf(s[i])]

\* new SlackGhost(datastore, slackId, teamId, userId, intent, displayname, avatarHash)
\* teamId is NONE when undefined; "if (teamId)" is also false for "".
ConstructorNoTeamUpper(rawSlackId, rawTeamId, userId, name, avatar) ==
    [ slackId     |-> ToUpperCase(rawSlackId),
      teamId      |-> rawTeamId,
      userId      |-> userId,
      displayname |-> name,
      avatarHash  |-> avatar ]

Constructor(rawSlackId, rawTeamId, userId, name, avatar) ==
    [ slackId     |-> ToUpperCase(rawSlackId),
      teamId      |-> IF rawTeamId # NONE /\ rawTeamId # << >>
                      THEN ToUpperCase(rawTeamId) ELSE rawTeamId,
      userId      |-> userId,
      displayname |-> name,
      avatarHash  |-> avatar ]

\* toEntry(): the keys in the order the object literal lists them
EntryKeys == << "avatar_url", "display_name", "id", "slack_id", "team_id" >>

ToEntry(g) ==
    [ avatar_url   |-> g.avatarHash,
      display_name |-> g.displayname,
      id           |-> g.userId,
      slack_id     |-> g.slackId,
      team_id      |-> g.teamId ]

(***************************************************************************)
(* PgDatastore: the users table (lines 41-56).                             *)
(***************************************************************************)
\* JSON.stringify of an entry: the list of its key/value pairs in key order;
\* a key whose value is undefined is left out.
RECURSIVE StringifyKeys(_, _, _)
StringifyKeys(o, keys, i) ==
    IF i > Len(keys) THEN << >>
    ELSE (IF o[keys[i]] = NONE THEN << >> ELSE << <<keys[i], o[keys[i]]>> >>)
         \o StringifyKeys(o, keys, i + 1)

JsonStringify(e) == StringifyKeys(e, EntryKeys, 1)

\* JSON.parse of such a text, read field by field: a missing key reads undefined.
JsonField(json, k) ==
    IF \E i \in 1..Len(json) : json[i][1] = k
    THEN json[CHOOSE i \in 1..Len(json) : json[i][1] = k][2]
    ELSE NONE

JsonParse(json) == [k \in {EntryKeys[i] : i \in 1..Len(EntryKeys)} |-> JsonField(json, k)]

UserRow(id, isremote, json) == [userId |-> id, isremote |-> isremote, json |-> json]

\* INSERT INTO users VALUES(id, true, json) ON CONFLICT (userId) DO NOTHING
UpsertUserRowsDoNothing(rows, entry) ==
    IF \E r \in rows : r.userId = entry.id
    THEN rows
    ELSE rows \cup { UserRow(entry.id, TRUE, JsonStringify(entry)) }

\* INSERT INTO users VALUES(id, true, json) ON CONFLICT (userId) DO UPDATE SET json = json
UpsertUserRows(rows, entry) ==
    IF \E r \in rows : r.userId = entry.id
    THEN { IF r.userId = entry.id THEN [r EXCEPT !.json = JsonStringify(entry)] ELSE r
           : r \in rows }
    ELSE rows \cup { UserRow(entry.id, TRUE, JsonStringify(entry)) }

\* getUser(id): oneOrNone; "null" when there is no row, "error" on several rows
GetUser(rows, id) ==
    LET hit == { r \in rows : r.userId = id }
    IN IF hit = {} THEN [result |-> "null"]
       ELSE IF Cardinality(hit) > 1 THEN [result |-> "error"]
       ELSE [result |-> "entry", entry |-> JsonParse((CHOOSE r \in hit : TRUE).json)]

(***************************************************************************)
(* SlackGhost: update(), updateDisplayname(), updateAvatar(),              *)
(* lookupUserInfo() (lines 91-305).                                        *)
(***************************************************************************)
\* The ghost of this model: new SlackGhost(ds, "u1a", "tb", "@slack_u1a:hs", intent)
GhostIdentity ==
    Constructor(<<"u", "1", "a">>, <<"t", "b">>, <<"@slack_u1a:hs">>, NONE, NONE)

\* the ghost object with the given cached profile
Ghost(name, avatar) ==
    [GhostIdentity EXCEPT !.displayname = name, !.avatarHash = avatar]

NoSub == <<0, "none">>

\* the record of a sync: nothing resolved yet
NoName == [got |-> FALSE, name |-> NONE]
NoAvatar == [got |-> FALSE, url |-> NONE, hash |-> NONE, tried |-> FALSE]
NoPrev == [msg |-> NoMsg, client |-> FALSE, dn |-> NoName, av |-> NoAvatar,
           dnOk |-> FALSE, avOk |-> FALSE, hash |-> NONE]

\* the cache has expired and nothing has looked the user up since
Expired == <<0, "expired">>

\* the record is kept where it is looked at
Traced(old, new) == IF tracing THEN new ELSE old

GhostInit ==
    /\ updateInProgress = FALSE
    /\ displayname = GhostIdentity.displayname
    /\ avatarHash = GhostIdentity.avatarHash
    /\ userInfoCache = NoResp
    /\ userInfoLoading = 0
    /\ cacheTimers = 0
    /\ fetchResp = [f \in Fetches |-> NoResp]
    /\ fetchBy = [f \in Fetches |-> NoSub]
    /\ upc = [c \in Calls |-> "new"]
    /\ msg = [c \in Calls |-> NoMsg]
    /\ client = [c \in Calls |-> FALSE]
    /\ dpc = [c \in Calls |-> "idle"]
    /\ dname = [c \in Calls |-> NONE]
    /\ dsnap = [c \in Calls |-> ToEntry(GhostIdentity)]
    /\ apc = [c \in Calls |-> "idle"]
    /\ aurl = [c \in Calls |-> NONE]
    /\ ahash = [c \in Calls |-> NONE]
    /\ asnap = [c \in Calls |-> ToEntry(GhostIdentity)]
    /\ lkOn = [s \in Subs |-> 0]
    /\ lkVal = [s \in Subs |-> NoResp]
    /\ mutCalls = {}
    /\ startedDuring = [c \in Calls |-> FALSE]
    /\ arrivedDuring = [s \in Subs |-> 0]
    /\ dres = [c \in Calls |-> NoName]
    /\ ares = [c \in Calls |-> NoAvatar]
    /\ prev = NoPrev
    /\ afterExpiry = NoSub

Pc(s) == IF s[2] = "dn" THEN dpc[s[1]] ELSE apc[s[1]]

SetPc(s, v) ==
    IF s[2] = "dn"
    THEN dpc' = [dpc EXCEPT ![s[1]] = v] /\ UNCHANGED apc
    ELSE apc' = [apc EXCEPT ![s[1]] = v] /\ UNCHANGED dpc

\* A synchronous segment runs to its first await before anything else runs:
\* update() calls updateDisplayname() and then updateAvatar() in one go
\* (lines 100-107).
SyncPending == \E c \in Calls : dpc[c] = "begin" \/ apc[c] = "begin"

\* the users.info calls that have not returned
InFlight == { f \in Fetches : fetchResp[f] = Pending }

NextFetch ==
    CHOOSE f \in Fetches :
        fetchResp[f] = NoResp /\ \A g \in 1..(f - 1) : fetchResp[g] # NoResp

\* a lookup that does not look at the cache
LookupKindNoCache(cache, loading) == IF loading # 0 THEN "lkWait" ELSE "lkFetch"

\* lookupUserInfo, lines 231-245: which way the call goes
LookupKindNoCoalesce(cache, loading) ==
    IF cache.kind # "none" THEN "gotUser" ELSE "lkFetch"

LookupKind(cache, loading) ==
    IF cache.kind # "none" THEN "gotUser"
    ELSE IF loading # 0 THEN "lkWait"
    ELSE "lkFetch"

\* lookupUserInfo, lines 230-245, up to its first await
LookupUserInfo(s) ==
    LET kind == LookupKind(userInfoCache, userInfoLoading)
    IN /\ SetPc(s, kind)
       /\ arrivedDuring' = [arrivedDuring EXCEPT ![s] =
              IF InFlight = {} THEN 0 ELSE CHOOSE f \in InFlight : TRUE]
       /\ afterExpiry' = Traced(afterExpiry, IF afterExpiry = Expired THEN s ELSE afterExpiry)
       /\ CASE kind = "gotUser" ->
                 /\ lkVal' = [lkVal EXCEPT ![s] = userInfoCache]
                 /\ UNCHANGED << userInfoLoading, fetchResp, fetchBy, lkOn >>
            [] kind = "lkWait" ->
                 /\ lkOn' = [lkOn EXCEPT ![s] = userInfoLoading]
                 /\ UNCHANGED << userInfoLoading, fetchResp, fetchBy, lkVal >>
            [] kind = "lkFetch" ->
                 LET f == NextFetch
                 IN /\ userInfoLoading' = f
                    /\ fetchResp' = [fetchResp EXCEPT ![f] = Pending]
                    /\ fetchBy' = [fetchBy EXCEPT ![f] = s]
                    /\ lkOn' = [lkOn EXCEPT ![s] = f]
                    /\ UNCHANGED lkVal

NoLookup ==
    UNCHANGED << userInfoLoading, fetchResp, fetchBy, lkOn, lkVal, arrivedDuring, afterExpiry >>

\* line 93: the test of the in-progress flag
UpdateGuardNever == FALSE

UpdateGuard == updateInProgress

\* update(), lines 91-100: the flag is tested and set in one synchronous segment
UpdateStart(c) ==
    /\ upc[c] = "new"
    /\ ~SyncPending
    /\ \A o \in 1..(c - 1) : upc[o] # "new"
    /\ startedDuring' = [startedDuring EXCEPT ![c] =
                            \E o \in Calls \ {c} : upc[o] = "awaiting"]
    /\ IF UpdateGuard
       THEN /\ upc' = [upc EXCEPT ![c] = "dropped"]
            /\ UNCHANGED << updateInProgress, dpc, apc, msg, client >>
       ELSE /\ \E m \in Messages, cl \in BOOLEAN :
                  /\ msg' = [msg EXCEPT ![c] = m]
                  /\ client' = [client EXCEPT ![c] = cl]
            /\ updateInProgress' = TRUE
            /\ upc' = [upc EXCEPT ![c] = "awaiting"]
            /\ dpc' = [dpc EXCEPT ![c] = "begin"]
            /\ apc' = [apc EXCEPT ![c] = "begin"]
    /\ UNCHANGED << displayname, avatarHash, userInfoCache, cacheTimers, users,
                    dname, dsnap, aurl, ahash, asnap, mutCalls >>
    /\ NoLookup
    /\ UNCHANGED syncVars
    /\ UNCHANGED ghostOthers

\* a comparison that never finds the names equal
SameNameNever(cached, computed) == FALSE

\* line 179: this.displayName === displayName
SameName(cached, computed) == cached = computed

\* updateDisplayname, lines 173-185: from the resolved name to setDisplayName
DnTail(c, name) ==
    /\ dres' = Traced(dres, [dres EXCEPT ![c] = [got |-> TRUE, name |-> name]])
    /\ IF ~Truthy(name)
       THEN /\ dpc' = [dpc EXCEPT ![c] = "done"]
            /\ UNCHANGED << dname, mutCalls >>
       ELSE LET full == name \o Suffix
            IN IF SameName(displayname, full)
               THEN /\ dpc' = [dpc EXCEPT ![c] = "done"]
                    /\ UNCHANGED << dname, mutCalls >>
               ELSE /\ dpc' = [dpc EXCEPT ![c] = "setDisplayName"]
                    /\ dname' = [dname EXCEPT ![c] = full]
                    /\ mutCalls' = mutCalls \cup { <<c, "setDisplayName">> }

\* updateDisplayname, lines 158-172: up to its first await
DnBegin(c) ==
    /\ dpc[c] = "begin"
    /\ LET m == msg[c]
           displayName == OrElse(m.username, m.user_name)
       IN IF client[c] /\ m.bot_id /\ m.user_id
          THEN /\ dpc' = [dpc EXCEPT ![c] = "done"]
               /\ UNCHANGED << dname, mutCalls, apc, dres >>
               /\ NoLookup
          ELSE IF client[c] /\ m.bot_id
          THEN /\ dpc' = [dpc EXCEPT ![c] = "botsInfo"]
               /\ UNCHANGED << dname, mutCalls, apc, dres >>
               /\ NoLookup
          ELSE IF client[c] /\ m.user_id
          THEN /\ LookupUserInfo(<<c, "dn">>)
               /\ UNCHANGED << dname, mutCalls, dres >>
          ELSE /\ DnTail(c, displayName)
               /\ UNCHANGED apc
               /\ NoLookup
    /\ UNCHANGED << updateInProgress, displayname, avatarHash, userInfoCache,
                    cacheTimers, users, upc, msg, client, dsnap, aurl, ahash,
                    asnap, startedDuring >>
    /\ UNCHANGED << tracing, ares, prev >>
    /\ UNCHANGED ghostOthers

\* getBotName, lines 205-212, and the rest of updateDisplayname
DnBotsInfo(c, r) ==
    /\ dpc[c] = "botsInfo"
    /\ ~SyncPending
    /\ IF r.kind = "rejected"
       THEN /\ dpc' = [dpc EXCEPT ![c] = "failed"]
            /\ UNCHANGED << dname, mutCalls, dres >>
       ELSE IF r.kind = "notok" \/ ~Truthy(r.name)
       THEN DnTail(c, NONE)
       ELSE DnTail(c, r.name)
    /\ UNCHANGED << updateInProgress, displayname, avatarHash, userInfoCache,
                    cacheTimers, users, upc, msg, client, dsnap, apc, aurl, ahash,
                    asnap, startedDuring >>
    /\ NoLookup
    /\ UNCHANGED << tracing, ares, prev >>
    /\ UNCHANGED ghostOthers

\* getDisplayname, lines 112-117, and the rest of updateDisplayname
DnGotUser(c) ==
    /\ dpc[c] = "gotUser"
    /\ ~SyncPending
    /\ LET user == lkVal[<<c, "dn">>]
       IN DnTail(c, IF user.kind = "user" THEN user.name ELSE NONE)
    /\ UNCHANGED << updateInProgress, displayname, avatarHash, userInfoCache,
                    cacheTimers, users, upc, msg, client, dsnap, apc, aurl, ahash,
                    asnap, startedDuring >>
    /\ NoLookup
    /\ UNCHANGED << tracing, ares, prev >>
    /\ UNCHANGED ghostOthers

\* updateDisplayname, lines 185-187: setDisplayName returned
DnSetDisplayName(c, ok) ==
    /\ dpc[c] = "setDisplayName"
    /\ ~SyncPending
    /\ IF ok
       THEN /\ displayname' = dname[c]
            /\ dsnap' = [dsnap EXCEPT ![c] = ToEntry(Ghost(dname[c], avatarHash))]
            /\ dpc' = [dpc EXCEPT ![c] = "upsertUser"]
       ELSE /\ dpc' = [dpc EXCEPT ![c] = "failed"]
            /\ UNCHANGED << displayname, dsnap >>
    /\ dname' = [dname EXCEPT ![c] = NONE]
    /\ UNCHANGED << updateInProgress, avatarHash, userInfoCache, cacheTimers, users,
                    upc, msg, client, apc, aurl, ahash, asnap, mutCalls,
                    startedDuring >>
    /\ NoLookup
    /\ UNCHANGED syncVars
    /\ UNCHANGED ghostOthers

\* updateDisplayname, line 187: upsertUser returned
DnUpsertUser(c, ok) ==
    /\ dpc[c] = "upsertUser"
    /\ ~SyncPending
    /\ IF ok
       THEN /\ users' = UpsertUserRows(users, dsnap[c])
            /\ dpc' = [dpc EXCEPT ![c] = "done"]
       ELSE /\ dpc' = [dpc EXCEPT ![c] = "failed"]
            /\ UNCHANGED users
    /\ dsnap' = [dsnap EXCEPT ![c] = ToEntry(GhostIdentity)]
    /\ UNCHANGED << updateInProgress, displayname, avatarHash, userInfoCache,
                    cacheTimers, upc, msg, client, dname, apc, aurl, ahash, asnap,
                    mutCalls, startedDuring >>
    /\ NoLookup
    /\ UNCHANGED syncVars
    /\ UNCHANGED ghostOthers

\* updateAvatar, lines 284-287: match = hash || avatarUrl.match(/\/([^\/]+)$/).
\* A truthy hash is its own match, and match[1] is its second character: every
\* hash of the model has one.  With a falsy hash the url is matched: calling
\* match on undefined throws, and every url of the model has a last segment.
AvatarMatch(url, hash) ==
    IF Truthy(hash) THEN "match"
    ELSE IF url = NONE THEN "throw"
    ELSE IF url = << >> THEN "nomatch"
    ELSE "match"

\* updateAvatar, lines 280-297: from the resolved url and hash to the fetch
AvTail(c, url, hash) ==
    /\ ares' = Traced(ares, [ares EXCEPT ![c] =
                  [got |-> TRUE, url |-> url, hash |-> hash,
                   tried |-> avatarHash # hash /\ AvatarMatch(url, hash) = "match"]])
    /\ IF avatarHash = hash
       THEN /\ apc' = [apc EXCEPT ![c] = "done"]
            /\ UNCHANGED << aurl, ahash >>
       ELSE IF AvatarMatch(url, hash) = "throw"
       THEN /\ apc' = [apc EXCEPT ![c] = "failed"]
            /\ UNCHANGED << aurl, ahash >>
       ELSE IF AvatarMatch(url, hash) = "nomatch"
       THEN /\ apc' = [apc EXCEPT ![c] = "done"]
            /\ UNCHANGED << aurl, ahash >>
       ELSE /\ apc' = [apc EXCEPT ![c] = "fetch"]
            /\ aurl' = [aurl EXCEPT ![c] = url]
            /\ ahash' = [ahash EXCEPT ![c] = hash]

\* updateAvatar, lines 256-278: up to its first await
AvBegin(c) ==
    /\ apc[c] = "begin"
    /\ dpc[c] # "begin"
    /\ LET m == msg[c]
       IN IF ~client[c]
          THEN /\ apc' = [apc EXCEPT ![c] = "done"]
               /\ UNCHANGED dpc
               /\ NoLookup
          ELSE IF m.bot_id /\ m.user_id
          THEN /\ apc' = [apc EXCEPT ![c] = "done"]
               /\ UNCHANGED dpc
               /\ NoLookup
          ELSE IF m.bot_id
          THEN /\ apc' = [apc EXCEPT ![c] = "botsInfo"]
               /\ UNCHANGED dpc
               /\ NoLookup
          ELSE IF m.user_id
          THEN LookupUserInfo(<<c, "av">>)
          ELSE /\ apc' = [apc EXCEPT ![c] = "done"]
               /\ UNCHANGED dpc
               /\ NoLookup
    /\ UNCHANGED << updateInProgress, displayname, avatarHash, userInfoCache,
                    cacheTimers, users, upc, msg, client, dname, dsnap, aurl, ahash,
                    asnap, mutCalls, startedDuring >>
    /\ UNCHANGED << tracing, dres, ares, prev >>
    /\ UNCHANGED ghostOthers

\* getBotAvatarUrl, lines 214-228, and lines 267-297 of updateAvatar
AvBotsInfo(c, r) ==
    /\ apc[c] = "botsInfo"
    /\ ~SyncPending
    /\ IF r.kind = "rejected"
       THEN /\ apc' = [apc EXCEPT ![c] = "failed"]
            /\ UNCHANGED << aurl, ahash, ares >>
       ELSE LET avatarUrl == IF r.kind = "notok" \/ ~Truthy(r.url) THEN NONE ELSE r.url
            IN AvTail(c, avatarUrl, avatarUrl)
    /\ UNCHANGED << updateInProgress, displayname, avatarHash, userInfoCache,
                    cacheTimers, users, upc, msg, client, dpc, dname, dsnap, asnap,
                    mutCalls, startedDuring >>
    /\ NoLookup
    /\ UNCHANGED << tracing, dres, prev >>
    /\ UNCHANGED ghostOthers

\* lookupAvatarUrl, lines 190-203, and lines 270-297 of updateAvatar
AvGotUser(c) ==
    /\ apc[c] = "gotUser"
    /\ ~SyncPending
    /\ LET user == lkVal[<<c, "av">>]
       IN IF user.kind # "user" \/ ~Truthy(user.url)
          THEN /\ apc' = [apc EXCEPT ![c] = "done"]
               /\ UNCHANGED << aurl, ahash, ares >>
          ELSE AvTail(c, user.url, user.hash)
    /\ UNCHANGED << updateInProgress, displayname, avatarHash, userInfoCache,
                    cacheTimers, users, upc, msg, client, dpc, dname, dsnap, asnap,
                    mutCalls, startedDuring >>
    /\ NoLookup
    /\ UNCHANGED << tracing, dres, prev >>
    /\ UNCHANGED ghostOthers

\* updateAvatar, lines 293-301: the image fetch returned; upload it
AvFetch(c, ok) ==
    /\ apc[c] = "fetch"
    /\ ~SyncPending
    /\ IF ok
       THEN /\ apc' = [apc EXCEPT ![c] = "uploadContent"]
            /\ mutCalls' = mutCalls \cup { <<c, "uploadContent">> }
       ELSE /\ apc' = [apc EXCEPT ![c] = "failed"]
            /\ UNCHANGED mutCalls
    /\ UNCHANGED << updateInProgress, displayname, avatarHash, userInfoCache,
                    cacheTimers, users, upc, msg, client, dpc, dname, dsnap, aurl,
                    ahash, asnap, startedDuring >>
    /\ NoLookup
    /\ UNCHANGED syncVars
    /\ UNCHANGED ghostOthers

\* updateAvatar, lines 298-302: the upload returned; set the avatar
AvUploadContent(c, ok) ==
    /\ apc[c] = "uploadContent"
    /\ ~SyncPending
    /\ IF ok
       THEN /\ apc' = [apc EXCEPT ![c] = "setAvatarUrl"]
            /\ mutCalls' = mutCalls \cup { <<c, "setAvatarUrl">> }
       ELSE /\ apc' = [apc EXCEPT ![c] = "failed"]
            /\ UNCHANGED mutCalls
    /\ UNCHANGED << updateInProgress, displayname, avatarHash, userInfoCache,
                    cacheTimers, users, upc, msg, client, dpc, dname, dsnap, aurl,
                    ahash, asnap, startedDuring >>
    /\ NoLookup
    /\ UNCHANGED syncVars
    /\ UNCHANGED ghostOthers

\* a cached hash that is replaced whether or not setAvatarUrl succeeded
HashAfterSetAlways(ok, cached, hash) == hash

\* lines 302-303: this.avatarHash = hash is reached when the await of
\* setAvatarUrl did not throw
HashAfterSet(ok, cached, hash) == IF ok THEN hash ELSE cached

\* updateAvatar, lines 302-304: setAvatarUrl returned
AvSetAvatarUrl(c, ok) ==
    /\ apc[c] = "setAvatarUrl"
    /\ ~SyncPending
    /\ avatarHash' = HashAfterSet(ok, avatarHash, ahash[c])
    /\ IF ok
       THEN /\ asnap' = [asnap EXCEPT ![c] = ToEntry(Ghost(displayname, ahash[c]))]
            /\ apc' = [apc EXCEPT ![c] = "upsertUser"]
       ELSE /\ apc' = [apc EXCEPT ![c] = "failed"]
            /\ UNCHANGED asnap
    /\ aurl' = [aurl EXCEPT ![c] = NONE]
    /\ ahash' = [ahash EXCEPT ![c] = NONE]
    /\ UNCHANGED << updateInProgress, displayname, userInfoCache, cacheTimers, users,
                    upc, msg, client, dpc, dname, dsnap, mutCalls, startedDuring >>
    /\ NoLookup
    /\ UNCHANGED syncVars
    /\ UNCHANGED ghostOthers

\* updateAvatar, line 304: upsertUser returned
AvUpsertUser(c, ok) ==
    /\ apc[c] = "upsertUser"
    /\ ~SyncPending
    /\ IF ok
       THEN /\ users' = UpsertUserRows(users, asnap[c])
            /\ apc' = [apc EXCEPT ![c] = "done"]
       ELSE /\ apc' = [apc EXCEPT ![c] = "failed"]
            /\ UNCHANGED users
    /\ asnap' = [asnap EXCEPT ![c] = ToEntry(GhostIdentity)]
    /\ UNCHANGED << updateInProgress, displayname, avatarHash, userInfoCache,
                    cacheTimers, upc, msg, client, dpc, dname, dsnap, aurl, ahash,
                    mutCalls, startedDuring >>
    /\ NoLookup
    /\ UNCHANGED syncVars
    /\ UNCHANGED ghostOthers

\* users.info returns: the promise held by userInfoLoading settles
FetchSettle(f, r) ==
    /\ fetchResp[f] = Pending
    /\ ~SyncPending
    /\ fetchResp' = [fetchResp EXCEPT ![f] = r]
    /\ UNCHANGED << updateInProgress, displayname, avatarHash, userInfoCache,
                    userInfoLoading, cacheTimers, fetchBy, users, upc, msg, client,
                    dpc, dname, dsnap, apc, aurl, ahash, asnap, lkOn, lkVal, mutCalls,
                    startedDuring, arrivedDuring >>
    /\ UNCHANGED syncVars
    /\ UNCHANGED ghostOthers

\* lookupUserInfo, lines 245-253: the caller that issued the fetch resumes
LkFetchResume(s) ==
    /\ Pc(s) = "lkFetch"
    /\ ~SyncPending
    /\ fetchResp[lkOn[s]] # Pending
    /\ LET r == fetchResp[lkOn[s]]
       IN IF r.kind = "rejected"
          THEN /\ SetPc(s, "failed")
               /\ UNCHANGED << userInfoCache, cacheTimers, userInfoLoading, lkVal >>
          ELSE IF r.kind # "user"
          THEN /\ SetPc(s, "gotUser")
               /\ lkVal' = [lkVal EXCEPT ![s] = NoResp]
               /\ UNCHANGED << userInfoCache, cacheTimers, userInfoLoading >>
          ELSE /\ SetPc(s, "gotUser")
               /\ lkVal' = [lkVal EXCEPT ![s] = r]
               /\ userInfoCache' = r
               /\ cacheTimers' = cacheTimers + 1
               /\ userInfoLoading' = 0
    /\ lkOn' = [lkOn EXCEPT ![s] = 0]
    /\ UNCHANGED << updateInProgress, displayname, avatarHash, fetchResp, fetchBy,
                    users, upc, msg, client, dname, dsnap, aurl, ahash, asnap,
                    mutCalls, startedDuring, arrivedDuring >>
    /\ UNCHANGED syncVars
    /\ UNCHANGED ghostOthers

\* lookupUserInfo, lines 236-240: a caller that awaited the promise in flight resumes
LkWaitResume(s) ==
    /\ Pc(s) = "lkWait"
    /\ ~SyncPending
    /\ fetchResp[lkOn[s]] # Pending
    /\ LET r == fetchResp[lkOn[s]]
       IN IF r.kind = "rejected"
          THEN /\ SetPc(s, "failed")
               /\ UNCHANGED lkVal
          ELSE /\ SetPc(s, "gotUser")
               /\ lkVal' = [lkVal EXCEPT ![s] = IF r.kind = "nouser" THEN NoResp ELSE r]
    /\ lkOn' = [lkOn EXCEPT ![s] = 0]
    /\ UNCHANGED << updateInProgress, displayname, avatarHash, userInfoCache,
                    userInfoLoading, cacheTimers, fetchResp, fetchBy, users, upc, msg,
                    client, dname, dsnap, aurl, ahash, asnap, mutCalls, startedDuring,
                    arrivedDuring >>
    /\ UNCHANGED syncVars
    /\ UNCHANGED ghostOthers

\* line 251: the timer set after a successful fetch fires
CacheExpire ==
    /\ cacheTimers > 0
    /\ ~SyncPending
    /\ userInfoCache' = NoResp
    /\ cacheTimers' = cacheTimers - 1
    /\ UNCHANGED << updateInProgress, displayname, avatarHash, userInfoLoading,
                    fetchResp, fetchBy, users, upc, msg, client, dpc, dname, dsnap,
                    apc, aurl, ahash, asnap, lkOn, lkVal, mutCalls, startedDuring,
                    arrivedDuring >>
    /\ afterExpiry' = Traced(afterExpiry, Expired)
    /\ UNCHANGED << tracing, dres, ares, prev >>
    /\ UNCHANGED ghostOthers

\* the state of a promise made from a coroutine without a catch
Uncaught(pc) ==
    IF pc = "done" THEN "fulfilled"
    ELSE IF pc = "failed" THEN "rejected"
    ELSE "pending"

\* lines 101-103 and 104-106: p.catch((e) => log.error(...)) fulfils when p settles
CatchDisplayname(pc) == IF pc \in {"done", "failed"} THEN "fulfilled" ELSE "pending"

CatchAvatar(pc) == IF pc \in {"done", "failed"} THEN "fulfilled" ELSE "pending"

\* Promise.all of two promises
PromiseAll(p, q) ==
    IF p = "rejected" \/ q = "rejected" THEN "rejected"
    ELSE IF p = "fulfilled" /\ q = "fulfilled" THEN "fulfilled"
    ELSE "pending"

\* a users.info response neither the ghost nor a caller holds any more
Settled == Resp("settled", NONE, NONE, NONE)

\* update() returns (line 110): the locals of the call and of its two
\* sub-operations are gone, and so are the responses only they held
ReturnLocals(c) ==
    /\ msg' = [msg EXCEPT ![c] = NoMsg]
    /\ client' = [client EXCEPT ![c] = FALSE]
    /\ dname' = [dname EXCEPT ![c] = NONE]
    /\ dsnap' = [dsnap EXCEPT ![c] = ToEntry(GhostIdentity)]
    /\ aurl' = [aurl EXCEPT ![c] = NONE]
    /\ ahash' = [ahash EXCEPT ![c] = NONE]
    /\ asnap' = [asnap EXCEPT ![c] = ToEntry(GhostIdentity)]
    /\ lkVal' = [s \in Subs |-> IF s[1] = c THEN NoResp ELSE lkVal[s]]
    /\ mutCalls' = { m \in mutCalls : m[1] # c }
    /\ dres' = [dres EXCEPT ![c] = NoName]
    /\ ares' = [ares EXCEPT ![c] = NoAvatar]
    /\ prev' = Traced(prev, [msg |-> msg[c], client |-> client[c], dn |-> dres[c],
                             av |-> ares[c], dnOk |-> dpc[c] = "done",
                             avOk |-> apc[c] = "done", hash |-> avatarHash])
    /\ fetchResp' = [f \in Fetches |->
          IF /\ fetchResp[f] \notin {NoResp, Pending}
             /\ userInfoLoading # f
             /\ \A s \in Subs : lkOn[s] # f
          THEN Settled ELSE fetchResp[f]]

\* update(), lines 100-110: Promise.all settled
UpdateFinish(c) ==
    /\ upc[c] = "awaiting"
    /\ ~SyncPending
    /\ LET all == PromiseAll(CatchDisplayname(dpc[c]), CatchAvatar(apc[c]))
       IN /\ all # "pending"
          /\ IF all = "fulfilled"
             THEN /\ updateInProgress' = FALSE
                  /\ upc' = [upc EXCEPT ![c] = "done"]
                  /\ ReturnLocals(c)
             ELSE /\ upc' = [upc EXCEPT ![c] = "threw"]
                  /\ UNCHANGED << updateInProgress, msg, client, dname, dsnap, aurl,
                                  ahash, asnap, lkVal, fetchResp, mutCalls, dres,
                                  ares, prev >>
    /\ UNCHANGED << displayname, avatarHash, userInfoCache, cacheTimers, users,
                    dpc, apc, startedDuring >>
    /\ UNCHANGED << userInfoLoading, fetchBy, lkOn, arrivedDuring, afterExpiry >>
    /\ UNCHANGED tracing
    /\ UNCHANGED ghostOthers

GhostNext ==
    \/ \E c \in Calls : UpdateStart(c)
    \/ \E c \in Calls : DnBegin(c)
    \/ \E c \in Calls : AvBegin(c)
    \/ \E c \in Calls, r \in BotResponses : DnBotsInfo(c, r)
    \/ \E c \in Calls : DnGotUser(c)
    \/ \E c \in Calls, ok \in BOOLEAN : DnSetDisplayName(c, ok)
    \/ \E c \in Calls, ok \in BOOLEAN : DnUpsertUser(c, ok)
    \/ \E c \in Calls, r \in BotResponses : AvBotsInfo(c, r)
    \/ \E c \in Calls : AvGotUser(c)
    \/ \E c \in Calls, ok \in BOOLEAN : AvFetch(c, ok)
    \/ \E c \in Calls, ok \in BOOLEAN : AvUploadContent(c, ok)
    \/ \E c \in Calls, ok \in BOOLEAN : AvSetAvatarUrl(c, ok)
    \/ \E c \in Calls, ok \in BOOLEAN : AvUpsertUser(c, ok)
    \/ \E f \in Fetches, r \in UserResponses : FetchSettle(f, r)
    \/ \E s \in Subs : LkFetchResume(s)
    \/ \E s \in Subs : LkWaitResume(s)
    \/ CacheExpire
    \/ \E c \in Calls : UpdateFinish(c)

(***************************************************************************)
(* SlackGhost objects and PgDatastore.upsertUser / getUser (lines 41-56).  *)
(***************************************************************************)
RawSlackIds == { <<"u", "1", "a">>, <<"U", "2", "B">> }
RawTeamIds == { NONE, << >>, <<"t", "b">> }
UserIds == { <<"@slack_1:hs">>, <<"@slack_2:hs">> }
ProfileNames == { <<"alice">> }
Avatars == { NONE, <<"h1">> }

NoGhost ==
    [slackId |-> NONE, teamId |-> NONE, userId |-> NONE, displayname |-> NONE,
     avatarHash |-> NONE]

NoEntry == ToEntry(NoGhost)

ObjInit ==
    /\ obj = NoGhost
    /\ objRaw = [slackId |-> NONE, teamId |-> NONE]
    /\ lastUpsert = [id \in UserIds |-> [entry |-> NoEntry, replaced |-> FALSE]]

\* new SlackGhost(...), lines 63-75
NewGhost(rawSlackId, rawTeamId, userId, name, avatar) ==
    /\ obj' = Constructor(rawSlackId, rawTeamId, userId, name, avatar)
    /\ objRaw' = [slackId |-> rawSlackId, teamId |-> rawTeamId]
    /\ UNCHANGED << users, lastUpsert >>
    /\ UNCHANGED userOthers

\* SlackGhost.fromEntry(datastore, await datastore.getUser(id), intent), lines 47-57
FromEntry(id) ==
    /\ GetUser(users, id).result = "entry"
    /\ LET e == GetUser(users, id).entry
       IN /\ obj' = Constructor(e.slack_id, e.team_id, e.id, e.display_name, e.avatar_url)
          /\ objRaw' = [slackId |-> e.slack_id, teamId |-> e.team_id]
    /\ UNCHANGED << users, lastUpsert >>
    /\ UNCHANGED userOthers

\* datastore.upsertUser(ghost), lines 41-48; the statement may be rejected
UpsertUser(ok) ==
    /\ obj # NoGhost
    /\ LET entry == ToEntry(obj)
       IN IF ok
          THEN /\ users' = UpsertUserRows(users, entry)
               /\ lastUpsert' = [lastUpsert EXCEPT ![entry.id] =
                      [entry |-> entry,
                       replaced |-> /\ lastUpsert[entry.id].entry # NoEntry
                                    /\ lastUpsert[entry.id].entry # entry]]
          ELSE UNCHANGED << users, lastUpsert >>
    /\ UNCHANGED << obj, objRaw >>
    /\ UNCHANGED userOthers

UsersNext ==
    \/ \E rs \in RawSlackIds, rt \in RawTeamIds, id \in UserIds,
          n \in ProfileNames, a \in Avatars : NewGhost(rs, rt, id, n, a)
    \/ \E id \in UserIds : FromEntry(id)
    \/ \E ok \in BOOLEAN : UpsertUser(ok)

(***************************************************************************)
(* PgDatastore: the events table (lines 113-162).                          *)
(***************************************************************************)
RoomIds == { <<"!r1:hs">>, <<"!r2:hs">> }
EventIds == { <<"$e1">>, <<"$e2">> }
ChannelIds == { <<"C1">>, <<"C2">> }
Timestamps == { <<"1.0001">>, <<"1.0002">> }
\* the channels of the stored events
StoredChannelIds == { <<"C1">> }

\* EventEntryExtra, as far as the model goes: {} or {slackThreadMessages: [...]}
ExtraKeys == << "slackThreadMessages" >>
Extras == { [slackThreadMessages |-> NONE], [slackThreadMessages |-> <<"1.0002">>] }
EmptyExtras == [slackThreadMessages |-> NONE]
\* the extras argument left out
UndefinedExtras == [slackThreadMessages |-> << "<no object>" >>]

\* JSON.stringify(entry._extras) and JSON.parse(dbEntry.extras)
ExtrasStringify(x) == StringifyKeys(x, ExtraKeys, 1)
ExtrasParse(json) == [k \in {ExtraKeys[i] : i \in 1..Len(ExtraKeys)} |-> JsonField(json, k)]

EventEntry(roomId, eventId, channelId, ts, extras) ==
    [roomId |-> roomId, eventId |-> eventId, slackChannelId |-> channelId,
     slackTs |-> ts, _extras |-> extras]

\* upsertEvent, lines 114-123: the positional form becomes an entry, with
\* _extras: extras || {}
PositionalEntry(roomId, eventId, channelId, ts, extras) ==
    EventEntry(roomId, eventId, channelId, ts, IF extras = UndefinedExtras THEN EmptyExtras ELSE extras)

\* the columns of the events table, in the order of VALUES(...) on line 125
EventRow(e) ==
    [roomid |-> e.roomId, eventid |-> e.eventId, slackchannel |-> e.slackChannelId,
     slackts |-> e.slackTs, extras |-> ExtrasStringify(e._extras)]

\* the two unique keys of the events table
MatrixKey(r) == << r.roomid, r.eventid >>
SlackKey(r) == << r.slackchannel, r.slackts >>

\* cons_events_unique is one of them: the key ON CONFLICT arbitrates on
ArbiterKey(r) == IF consEvents = "matrix" THEN MatrixKey(r) ELSE SlackKey(r)
OtherKey(r) == IF consEvents = "matrix" THEN SlackKey(r) ELSE MatrixKey(r)

\* INSERT INTO events VALUES(...) ON CONFLICT ON CONSTRAINT cons_events_unique
\* DO UPDATE SET extras = jsonExtras (lines 125-129): the outcome
EventsInsertOutcome(rows, row) ==
    IF \E r \in rows : ArbiterKey(r) = ArbiterKey(row) THEN "updated"
    ELSE IF \E r \in rows : OtherKey(r) = OtherKey(row) THEN "rejected"
    ELSE "inserted"

\* ... and the rows afterwards
EventsInsert(rows, row) ==
    CASE EventsInsertOutcome(rows, row) = "updated" ->
            { IF ArbiterKey(r) = ArbiterKey(row) THEN [r EXCEPT !.extras = row.extras] ELSE r
              : r \in rows }
      [] EventsInsertOutcome(rows, row) = "rejected" -> rows
      [] OTHER -> rows \cup {row}

NoLookupResult == [result |-> "null"]

\* getEventByMatrixId with slackTs read from the wrong column
GetEventByMatrixIdWrongColumn(rows, roomId, eventId) ==
    LET hit == { r \in rows : r.roomid = roomId /\ r.eventid = eventId }
    IN IF hit = {} THEN NoLookupResult
       ELSE IF Cardinality(hit) > 1 THEN [result |-> "error"]
       ELSE LET dbEntry == CHOOSE r \in hit : TRUE
            IN [result |-> "entry",
                entry |-> EventEntry(roomId, eventId, dbEntry.slackchannel,
                                     dbEntry.slackchannel, ExtrasParse(dbEntry.extras))]

\* getEventByMatrixId, lines 132-146; oneOrNone rejects when several rows match
GetEventByMatrixId(rows, roomId, eventId) ==
    LET hit == { r \in rows : r.roomid = roomId /\ r.eventid = eventId }
    IN IF hit = {} THEN NoLookupResult
       ELSE IF Cardinality(hit) > 1 THEN [result |-> "error"]
       ELSE LET dbEntry == CHOOSE r \in hit : TRUE
            IN [result |-> "entry",
                entry |-> EventEntry(roomId, eventId, dbEntry.slackchannel,
                                     dbEntry.slackts, ExtrasParse(dbEntry.extras))]

\* getEventBySlackId, lines 148-162
GetEventBySlackId(rows, slackChannel, slackTs) ==
    LET hit == { r \in rows : r.slackchannel = slackChannel /\ r.slackts = slackTs }
    IN IF hit = {} THEN NoLookupResult
       ELSE IF Cardinality(hit) > 1 THEN [result |-> "error"]
       ELSE LET dbEntry == CHOOSE r \in hit : TRUE
            IN [result |-> "entry",
                entry |-> EventEntry(dbEntry.roomid, dbEntry.eventid, slackChannel,
                                     slackTs, ExtrasParse(dbEntry.extras))]

NoEventCall ==
    [entry |-> EventEntry(NONE, NONE, NONE, NONE, EmptyExtras), outcome |-> "none"]

\* upsertEvent, lines 113-130, given an entry; the database may be unreachable
UpsertEventEntry(entry, dbUp) ==
    /\ IF dbUp
       THEN /\ events' = EventsInsert(events, EventRow(entry))
            /\ lastEvent' = [entry |-> entry,
                             outcome |-> EventsInsertOutcome(events, EventRow(entry))]
       ELSE /\ events' = events
            /\ lastEvent' = [entry |-> entry, outcome |-> "rejected"]
    /\ UNCHANGED consEvents
    /\ UNCHANGED eventOthers

\* upsertEvent(roomId, eventId, channelId, ts, extras?)
UpsertEventPositional(roomId, eventId, channelId, ts, extras, dbUp) ==
    UpsertEventEntry(PositionalEntry(roomId, eventId, channelId, ts, extras), dbUp)

\* upsertEvent(entry)
UpsertEventObject(entry, dbUp) ==
    UpsertEventEntry(entry, dbUp)

EventsNext ==
    \/ \E ro \in RoomIds, ev \in EventIds, ch \in StoredChannelIds, ts \in Timestamps,
          x \in Extras \cup {UndefinedExtras}, dbUp \in BOOLEAN :
            UpsertEventPositional(ro, ev, ch, ts, x, dbUp)
    \/ \E ro \in RoomIds, ev \in EventIds, ch \in StoredChannelIds, ts \in Timestamps,
          x \in Extras, dbUp \in BOOLEAN :
            UpsertEventObject(EventEntry(ro, ev, ch, ts, x), dbUp)

(***************************************************************************)
(* PgDatastore.ensureSchema (lines 164-179, 397-414).                      *)
(***************************************************************************)
LATEST_SCHEMA == 7

\* ensureSchema calls in one run of the model
MaxRuns == 2

NoFailure == [step |-> 0, kind |-> "none"]

\* the migrations 1..n, in order
Migrations(n) == [i \in 1..n |-> i]

SchemaInit ==
    /\ epc = "idle"
    /\ currentVersion = 0
    /\ startVersion = 0
    /\ runSteps = << >>
    /\ versionWrites = << >>
    /\ failAt = NoFailure
    /\ runs = 0

\* updateSchemaVersion writing the latest version instead of the one given
UpdateSchemaVersionLatest(version) == LATEST_SCHEMA

\* updateSchemaVersion, lines 397-400: UPDATE schema SET version = ${version}
UpdateSchemaVersion(version) == version

\* ensureSchema, line 165: getSchemaVersion is called
EnsureSchema ==
    /\ epc \in {"idle", "done", "failed"}
    /\ runs < MaxRuns
    /\ runs' = runs + 1
    /\ epc' = "getSchemaVersion"
    /\ currentVersion' = 0
    /\ startVersion' = 0
    /\ runSteps' = << >>
    /\ versionWrites' = << >>
    /\ failAt' = NoFailure
    /\ UNCHANGED << schemaVersion, applied >>
    /\ UNCHANGED schemaOthers

\* lines 166-170: the loop test, and the call of the next migration
LoopFrom(version) ==
    IF version < LATEST_SCHEMA
    THEN /\ epc' = "runSchema"
         /\ runSteps' = Append(runSteps, version + 1)
    ELSE /\ epc' = "done"
         /\ UNCHANGED runSteps

\* getSchemaVersion, lines 402-414, returns the stored version (0 when there is
\* no schema table) or throws
GetSchemaVersionReturn(ok) ==
    /\ epc = "getSchemaVersion"
    /\ IF ok
       THEN /\ currentVersion' = schemaVersion
            /\ startVersion' = schemaVersion
            /\ LoopFrom(schemaVersion)
            /\ UNCHANGED failAt
       ELSE /\ epc' = "failed"
            /\ failAt' = [step |-> 0, kind |-> "read"]
            /\ UNCHANGED << currentVersion, startVersion, runSteps >>
    /\ UNCHANGED << schemaVersion, applied, versionWrites, runs >>
    /\ UNCHANGED schemaOthers

\* lines 170-176: runSchema returned or threw
RunSchemaReturn(ok) ==
    /\ epc = "runSchema"
    /\ IF ok
       THEN /\ applied' = Append(applied, currentVersion + 1)
            /\ currentVersion' = currentVersion + 1
            /\ epc' = "updateSchemaVersion"
            /\ UNCHANGED failAt
       ELSE /\ epc' = "failed"
            /\ failAt' = [step |-> currentVersion + 1, kind |-> "script"]
            /\ UNCHANGED << applied, currentVersion >>
    /\ UNCHANGED << schemaVersion, startVersion, runSteps, versionWrites, runs >>
    /\ UNCHANGED schemaOthers

\* lines 172-177: updateSchemaVersion returned or threw
UpdateSchemaVersionReturn(ok) ==
    /\ epc = "updateSchemaVersion"
    /\ IF ok
       THEN /\ schemaVersion' = UpdateSchemaVersion(currentVersion)
            /\ versionWrites' = Append(versionWrites, schemaVersion')
            /\ LoopFrom(currentVersion)
            /\ UNCHANGED failAt
       ELSE /\ epc' = "failed"
            /\ failAt' = [step |-> currentVersion, kind |-> "write"]
            /\ UNCHANGED << schemaVersion, versionWrites, runSteps >>
    /\ UNCHANGED << applied, currentVersion, startVersion, runs >>
    /\ UNCHANGED schemaOthers

SchemaNext ==
    \/ EnsureSchema
    \/ \E ok \in BOOLEAN : GetSchemaVersionReturn(ok)
    \/ \E ok \in BOOLEAN : RunSchemaReturn(ok)
    \/ \E ok \in BOOLEAN : UpdateSchemaVersionReturn(ok)

(***************************************************************************)
(* SlackGhost: sendText, sendMessage, sendReaction, sendWithReply          *)
(* (lines 317-384).  The datastore is the ghost's collaborator here: an    *)
(* upsertEvent call is acknowledged or rejected.                           *)
(***************************************************************************)
\* send operations in one run of the model
NSend == 2

Sends == 1..NSend

SendKinds == {"sendText", "sendMessage", "sendReaction", "sendWithReply"}

\* sendText and sendWithReply render the text first (Slackdown.parse)
Renders(kind) == kind \in {"sendText", "sendWithReply"}

\* the Intent primitive the operation delivers with
Primitive(kind) == IF kind = "sendReaction" THEN "sendEvent" ELSE "sendMessage"

NoSend == [kind |-> "none", roomId |-> NONE, slackRoomId |-> NONE, slackEventTs |-> NONE]

SendInit ==
    /\ spc = [o \in Sends |-> "new"]
    /\ sop = [o \in Sends |-> NoSend]
    /\ sevent = [o \in Sends |-> 0]
    /\ delivered = [o \in Sends |-> FALSE]
    /\ upsertCalls = [o \in Sends |-> << >>]
    /\ eventStore = {}
    /\ nextEventId = 1

\* lines 317-333, 367-383, 349-359, 336-337: up to the call of the Intent
SendStart(o, kind, roomId, slackRoomId, slackEventTs, renderOk) ==
    /\ spc[o] = "new"
    /\ \A q \in 1..(o - 1) : spc[q] # "new"
    /\ sop' = [sop EXCEPT ![o] = [kind |-> kind, roomId |-> roomId,
                                  slackRoomId |-> slackRoomId,
                                  slackEventTs |-> slackEventTs]]
    /\ spc' = [spc EXCEPT ![o] = IF Renders(kind) /\ ~renderOk THEN "failed" ELSE "intent"]
    /\ UNCHANGED << sevent, delivered, upsertCalls, eventStore, nextEventId >>
    /\ UNCHANGED sendOthers

\* upsertEvent called whether or not the Intent accepted the message
AfterDeliveryAlways(ok) == "upsertEvent"

\* lines 337-339 and 359-362: upsertEvent is reached only when the awaited
\* Intent call did not throw
AfterDelivery(ok) == IF ok THEN "upsertEvent" ELSE "failed"

\* lines 337-344 and 359-362: intent.sendMessage / intent.sendEvent returned
SendIntentReturn(o, ok) ==
    /\ spc[o] = "intent"
    /\ spc' = [spc EXCEPT ![o] = AfterDelivery(ok)]
    /\ delivered' = [delivered EXCEPT ![o] = ok]
    /\ IF ok
       THEN /\ sevent' = [sevent EXCEPT ![o] = nextEventId]
            /\ nextEventId' = nextEventId + 1
       ELSE UNCHANGED << sevent, nextEventId >>
    /\ IF AfterDelivery(ok) = "upsertEvent"
       THEN upsertCalls' = [upsertCalls EXCEPT ![o] =
                Append(@, PositionalEntry(sop[o].roomId, sevent'[o], sop[o].slackRoomId,
                                          sop[o].slackEventTs, UndefinedExtras))]
       ELSE UNCHANGED upsertCalls
    /\ UNCHANGED << sop, eventStore >>
    /\ UNCHANGED sendOthers

\* lines 339-346 and 362-364: upsertEvent returned or threw
SendUpsertReturn(o, ok) ==
    /\ spc[o] = "upsertEvent"
    /\ IF ok
       THEN /\ eventStore' = eventStore \cup { upsertCalls[o][Len(upsertCalls[o])] }
            /\ spc' = [spc EXCEPT ![o] = "returned"]
       ELSE /\ spc' = [spc EXCEPT ![o] = "failed"]
            /\ UNCHANGED eventStore
    /\ UNCHANGED << sop, sevent, delivered, upsertCalls, nextEventId >>
    /\ UNCHANGED sendOthers

\* the (roomId, slackRoomId, slackEventTs) the operations are called with
SendTargets ==
    { << <<"!r1:hs">>, <<"C1">>, <<"1.0001">> >>, << <<"!r2:hs">>, <<"C2">>, <<"1.0002">> >> }

SendNext ==
    \/ \E o \in Sends, kind \in SendKinds, t \in SendTargets, renderOk \in BOOLEAN :
            SendStart(o, kind, t[1], t[2], t[3], renderOk)
    \/ \E o \in Sends, ok \in BOOLEAN : SendIntentReturn(o, ok)
    \/ \E o \in Sends, ok \in BOOLEAN : SendUpsertReturn(o, ok)

(***************************************************************************)
(* SlackHookHandler.lookupMessage (lines 863-903).                         *)
(***************************************************************************)
\* messages in one conversations.history response
MaxMsgs == 2

HistMessage(text, subtype, file) == [text |-> text, subtype |-> subtype, file |-> file]

NoMessage == HistMessage(NONE, NONE, NONE)

HistMessages ==
    { HistMessage(<<"a file">>, <<"file_share">>, <<"F1">>),
      HistMessage(<<"hello">>, NONE, NONE),
      HistMessage(<<"waves">>, <<"me_message">>, NONE) }

SeqsUpTo(S, n) == UNION { [1..k -> S] : k \in 0..n }

\* a ConversationsHistoryResponse, or the rejection of the call
HistResp(kind, ok, hasMessages, messages) ==
    [kind |-> kind, ok |-> ok, hasMessages |-> hasMessages, messages |-> messages]

NoHistResp == HistResp("none", FALSE, FALSE, << >>)

HistResponses ==
    { HistResp("rejected", FALSE, FALSE, << >>) }
    \cup { HistResp("response", ok, FALSE, << >>) : ok \in BOOLEAN }
    \cup { HistResp("response", ok, TRUE, ms) :
             ok \in BOOLEAN, ms \in SeqsUpTo(HistMessages, MaxMsgs) }

LookupResult(status, error, message, content) ==
    [status |-> status, error |-> error, message |-> message, content |-> content]

NoLookupMessage == LookupResult("none", "", NoMessage, NONE)

NoQuery == [channel |-> NONE, inclusive |-> FALSE, latest |-> NONE, oldest |-> NONE]

LookupInit ==
    /\ lpc = "idle"
    /\ largs = [channelID |-> NONE, timestamp |-> NONE]
    /\ lquery = NoQuery
    /\ lresp = NoHistResp
    /\ lmessage = NoMessage
    /\ lresult = NoLookupMessage
    /\ lshare = "none"
    /\ lfetch = "none"

\* lines 863-872: the history query
LookupMessage(channelID, timestamp) ==
    /\ lpc \in {"idle", "end"}
    /\ lpc' = "history"
    /\ largs' = [channelID |-> channelID, timestamp |-> timestamp]
    /\ lquery' = [channel |-> channelID, inclusive |-> TRUE, latest |-> timestamp,
                  oldest |-> timestamp]
    /\ lresp' = NoHistResp
    /\ lmessage' = NoMessage
    /\ lresult' = NoLookupMessage
    /\ lshare' = "none"
    /\ lfetch' = "none"
    /\ UNCHANGED lookupOthers

\* the first message taken whatever the number of messages
HistoryVerdictFirst(r) ==
    IF ~r.ok \/ ~r.hasMessages \/ Len(r.messages) = 0 THEN "Could not find history"
    ELSE "found"

\* lines 874-887
HistoryVerdict(r) ==
    IF ~r.ok \/ ~r.hasMessages \/ Len(r.messages) = 0 THEN "Could not find history"
    ELSE IF Len(r.messages) # 1 THEN "Collision"
    ELSE "found"

\* lines 867-893: conversations.history returned or threw
HistoryReturn(r) ==
    /\ lpc = "history"
    /\ lresp' = r
    /\ IF r.kind = "rejected"
       THEN /\ lpc' = "end"
            /\ lresult' = LookupResult("threw", "rejected", NoMessage, NONE)
            /\ UNCHANGED lmessage
       ELSE IF HistoryVerdict(r) # "found"
       THEN /\ lpc' = "end"
            /\ lresult' = LookupResult("threw", HistoryVerdict(r), NoMessage, NONE)
            /\ UNCHANGED lmessage
       ELSE IF r.messages[1].subtype = <<"file_share">>
       THEN /\ lpc' = "enablePublicSharing"
            /\ lmessage' = r.messages[1]
            /\ UNCHANGED lresult
       ELSE /\ lpc' = "end"
            /\ lmessage' = r.messages[1]
            /\ lresult' = LookupResult("returned", "", r.messages[1], NONE)
    /\ UNCHANGED << largs, lquery, lshare, lfetch >>
    /\ UNCHANGED lookupOthers

\* the failure of the file steps thrown on to the caller of lookupMessage
CatchFileRethrows(message) == LookupResult("threw", "rejected", NoMessage, NONE)

\* lines 896-902: the catch logs the failure and falls through to the return
\* of the message without content
CatchFile(message) == LookupResult("returned", "", message, NONE)

\* lines 893-899: enablePublicSharing returned the shared file, or threw
SharingReturn(ok) ==
    /\ lpc = "enablePublicSharing"
    /\ lshare' = IF ok THEN "ok" ELSE "failed"
    /\ IF ok
       THEN /\ lmessage' = [lmessage EXCEPT !.file = lmessage.file \o <<"public">>]
            /\ lpc' = "fetchFileContent"
            /\ UNCHANGED lresult
       ELSE /\ lpc' = "end"
            /\ lresult' = CatchFile(lmessage)
            /\ UNCHANGED lmessage
    /\ UNCHANGED << largs, lquery, lresp, lfetch >>
    /\ UNCHANGED lookupOthers

\* lines 894-902: fetchFileContent returned the content, or threw
FetchFileReturn(ok) ==
    /\ lpc = "fetchFileContent"
    /\ lfetch' = IF ok THEN "ok" ELSE "failed"
    /\ lpc' = "end"
    /\ lresult' = IF ok THEN LookupResult("returned", "", lmessage, <<"bytes">>)
                  ELSE CatchFile(lmessage)
    /\ UNCHANGED << largs, lquery, lresp, lmessage, lshare >>
    /\ UNCHANGED lookupOthers

LookupNext ==
    \/ \E ch \in ChannelIds, ts \in Timestamps : LookupMessage(ch, ts)
    \/ \E r \in HistResponses : HistoryReturn(r)
    \/ \E ok \in BOOLEAN : SharingReturn(ok)
    \/ \E ok \in BOOLEAN : FetchFileReturn(ok)

(***************************************************************************)
(* SlackHookHandler.handleAuthorize (lines 762-849).                       *)
(***************************************************************************)
\* authorize requests in one run of the model
MaxAuthReqs == 2

MatrixUsers == { <<"@alice:hs">>, <<"@bob:hs">> }
TeamIds == { <<"T1">>, <<"T2">> }

\* what the request came with: whether OAuth2 is configured, whether the
\* inbound id is bound to a room, and the user of the pre-auth token (NONE
\* when the token is not known)
AuthReq(oauth2, caller, user) == [oauth2 |-> oauth2, caller |-> caller, user |-> user]

NoAuthReq == AuthReq(FALSE, "none", NONE)

\* what exchangeCodeForToken answers
Exchange(kind, team, bot) == [kind |-> kind, team_id |-> team, bot |-> bot]

NoExchange == Exchange("none", NONE, FALSE)

ExchangeResponses ==
    { Exchange("rejected", NONE, FALSE) }
    \cup { Exchange("ok", t, b) : t \in TeamIds, b \in BOOLEAN }

Page(code, html) == [code |-> code, html |-> html]

NoPage == Page(0, "none")

\* the pages of lines 766-769, 777-780, 808-814, 835-841, 843-848; code 0 is
\* a page without code; the last two name the integration by the caller
NotConfiguredPage == Page(500, "OAuth is not configured on this bridge.")
TokenUnknownPage == Page(500, "Token not known.")
TeamLimitPage == Page(403, "Integration Failed: You have reached the limit of Slack teams")
Integration(caller) == IF caller = "room" THEN "channel integration" ELSE "account"
FailedPage(caller) == Page(403, "Integration Failed: " \o Integration(caller))
SuccessPage(caller) == Page(0, "Integration Successful: " \o Integration(caller))

AuthInit ==
    /\ hpc = "idle"
    /\ hreq = NoAuthReq
    /\ hresp = NoExchange
    /\ hcalls = << >>
    /\ hresult = NoPage
    /\ limitHit = FALSE
    /\ revokeOutcome = "none"
    /\ tokenWrite = "none"
    /\ accessTokens = {}
    /\ teams = {}
    /\ nreq = 0

\* lines 762-794: up to the code exchange
HandleAuthorize(req) ==
    /\ hpc \in {"idle", "end"}
    /\ nreq < MaxAuthReqs
    /\ nreq' = nreq + 1
    /\ hreq' = req
    /\ hresp' = NoExchange
    /\ limitHit' = FALSE
    /\ revokeOutcome' = "none"
    /\ tokenWrite' = "none"
    /\ IF ~req.oauth2
       THEN /\ hpc' = "end"
            /\ hresult' = NotConfiguredPage
            /\ hcalls' = << >>
       ELSE IF req.caller = "token" /\ req.user = NONE
       THEN /\ hpc' = "end"
            /\ hresult' = TokenUnknownPage
            /\ hcalls' = << >>
       ELSE /\ hpc' = "exchangeCodeForToken"
            /\ hresult' = NoPage
            /\ hcalls' = << "exchangeCodeForToken" >>
    /\ UNCHANGED << accessTokens, teams >>
    /\ UNCHANGED authOthers

\* lines 791-800: the code exchange returned or threw
ExchangeReturn(r) ==
    /\ hpc = "exchangeCodeForToken"
    /\ hresp' = r
    /\ IF r.kind = "rejected"
       THEN /\ hpc' = "end"
            /\ hresult' = FailedPage(hreq.caller)
            /\ UNCHANGED hcalls
       ELSE IF hreq.caller = "room"
       THEN /\ hpc' = "end"
            /\ hresult' = SuccessPage(hreq.caller)
            /\ UNCHANGED hcalls
       ELSE /\ hpc' = "willExceedTeamLimit"
            /\ hcalls' = Append(hcalls, "willExceedTeamLimit")
            /\ UNCHANGED hresult
    /\ UNCHANGED << hreq, limitHit, revokeOutcome, tokenWrite, accessTokens, teams, nreq >>
    /\ UNCHANGED authOthers

\* lines 800-824: willExceedTeamLimit answered, or threw
TeamLimitReturn(answer) ==
    /\ hpc = "willExceedTeamLimit"
    /\ IF answer = "throws"
       THEN /\ hpc' = "end"
            /\ hresult' = FailedPage(hreq.caller)
            /\ UNCHANGED << hcalls, limitHit >>
       ELSE IF answer = "true"
       THEN /\ hpc' = "createTeamClient"
            /\ hcalls' = Append(hcalls, "createTeamClient")
            /\ limitHit' = TRUE
            /\ UNCHANGED hresult
       ELSE /\ hpc' = "setUserAccessToken"
            /\ hcalls' = Append(hcalls, "setUserAccessToken")
            /\ UNCHANGED << hresult, limitHit >>
    /\ UNCHANGED << hreq, hresp, revokeOutcome, tokenWrite, accessTokens, teams, nreq >>
    /\ UNCHANGED authOthers

\* a failed revoke reaching the catch of line 833
AfterRevokeEscalating(ok) == IF ok THEN TeamLimitPage ELSE FailedPage("token")

\* lines 802-814: whatever the revoke attempt did, the rejection page is returned
AfterRevoke(ok) == TeamLimitPage

\* lines 803-814: createTeamClient returned or threw
CreateTeamClientReturn(ok) ==
    /\ hpc = "createTeamClient"
    /\ IF ok
       THEN /\ hpc' = "auth.revoke"
            /\ hcalls' = Append(hcalls, "auth.revoke")
            /\ UNCHANGED << hresult, revokeOutcome >>
       ELSE /\ hpc' = "end"
            /\ hresult' = AfterRevoke(FALSE)
            /\ revokeOutcome' = "no client"
            /\ UNCHANGED hcalls
    /\ UNCHANGED << hreq, hresp, limitHit, tokenWrite, accessTokens, teams, nreq >>
    /\ UNCHANGED authOthers

\* lines 804-814: auth.revoke returned or threw
RevokeReturn(ok) ==
    /\ hpc = "auth.revoke"
    /\ hpc' = "end"
    /\ hresult' = AfterRevoke(ok)
    /\ revokeOutcome' = IF ok THEN "revoked" ELSE "failed"
    /\ UNCHANGED << hreq, hresp, hcalls, limitHit, tokenWrite, accessTokens, teams, nreq >>
    /\ UNCHANGED authOthers

\* the failure of setUserAccessToken swallowed
UpsertsTeamAnyway(ok, bot) == bot

\* lines 818-825: upsertTeamByToken is called when the await of
\* setUserAccessToken returned and the exchange granted a bot token
UpsertsTeam(ok, bot) == ok /\ bot

\* lines 818-831: setUserAccessToken returned or threw
SetUserAccessTokenReturn(ok) ==
    /\ hpc = "setUserAccessToken"
    /\ tokenWrite' = IF ok THEN "ok" ELSE "failed"
    /\ accessTokens' =
          IF ok
          THEN accessTokens \cup
                  { [user |-> hreq.user, team |-> hresp.team_id, botless |-> ~hresp.bot] }
          ELSE accessTokens
    /\ IF UpsertsTeam(ok, hresp.bot)
       THEN /\ hpc' = "upsertTeamByToken"
            /\ hcalls' = Append(hcalls, "upsertTeamByToken")
            /\ UNCHANGED hresult
       ELSE /\ hpc' = "end"
            /\ hresult' = IF ok THEN SuccessPage(hreq.caller) ELSE FailedPage(hreq.caller)
            /\ UNCHANGED hcalls
    /\ UNCHANGED << hreq, hresp, limitHit, revokeOutcome, teams, nreq >>
    /\ UNCHANGED authOthers

\* lines 828-848: upsertTeamByToken returned or threw
UpsertTeamByTokenReturn(ok) ==
    /\ hpc = "upsertTeamByToken"
    /\ hpc' = "end"
    /\ IF ok
       THEN /\ teams' = teams \cup { hresp.team_id }
            /\ hresult' = SuccessPage(hreq.caller)
       ELSE /\ hresult' = FailedPage(hreq.caller)
            /\ UNCHANGED teams
    /\ UNCHANGED << hreq, hresp, hcalls, limitHit, revokeOutcome, tokenWrite, accessTokens,
                    nreq >>
    /\ UNCHANGED authOthers

AuthRequests ==
    { AuthReq(o, "room", NONE) : o \in BOOLEAN }
    \cup { AuthReq(o, "token", u) : o \in BOOLEAN, u \in MatrixUsers \cup {NONE} }

AuthNext ==
    \/ \E req \in AuthRequests : HandleAuthorize(req)
    \/ \E r \in ExchangeResponses : ExchangeReturn(r)
    \/ \E answer \in {"true", "false", "throws"} : TeamLimitReturn(answer)
    \/ \E ok \in BOOLEAN : CreateTeamClientReturn(ok)
    \/ \E ok \in BOOLEAN : RevokeReturn(ok)
    \/ \E ok \in BOOLEAN : SetUserAccessTokenReturn(ok)
    \/ \E ok \in BOOLEAN : UpsertTeamByTokenReturn(ok)

(***************************************************************************)
(* SlackHookHandler.getUrlParts (lines 609-615).  A URL is the sequence of *)
(* its characters.                                                         *)
(***************************************************************************)
\* the {32} of the pattern of line 610
IdLen == 32

Digits == << "0", "1", "2", "3", "4", "5", "6", "7", "8", "9" >>

\* "0123456789012..." of length n
DigitRun(n) == [ i \in 1..n |-> Digits[((i - 1) % 10) + 1] ]

Slash == << "/" >>
Authorize == << "a", "u", "t", "h", "o", "r", "i", "z", "e" >>
Post == << "p", "o", "s", "t" >>
Query == << "?", "x", "=", "1" >>

\* what may precede the inbound id
UrlPrefixes ==
    { << >>, Slash, Slash \o << "a", "b", "c" >> \o Slash,
      Slash \o << "a" >> \o Slash \o << "b" >> \o Slash }

\* the inbound id, and what else may stand in its place: one character less,
\* one more, and two shorter segments
UrlBodies ==
    { DigitRun(IdLen), DigitRun(IdLen - 1), DigitRun(IdLen + 1),
      DigitRun(10) \o Slash \o DigitRun(IdLen - 12) }

\* what may follow it
UrlSuffixes ==
    { << >>, Slash, Slash \o Authorize, Slash \o Authorize \o Query, Query,
      Slash \o Post, Slash \o DigitRun(IdLen) }

Urls == { pre \o body \o suf : pre \in UrlPrefixes, body \in UrlBodies, suf \in UrlSuffixes }

Parts(id, path) == [kind |-> "parts", inboundId |-> id, path |-> path]
IncorrectFormat == [kind |-> "threw", inboundId |-> NONE, path |-> NONE]
NoParts == [kind |-> "none", inboundId |-> NONE, path |-> NONE]

\* where (\/?.*\/)* can end: before the first character or after any slash
PrefixEnds(url) == {0} \cup { p \in 1..Len(url) : url[p] = "/" }

\* (.{32})(?:\/(.*))?$ matches what follows position p
TailMatches(url, p) ==
    /\ Len(url) - p >= IdLen
    /\ \/ Len(url) - p = IdLen
       \/ url[p + IdLen + 1] = "/"

\* url.match(...) of line 610: the greedy prefix gives way from the right, so
\* the match found is the one with the longest prefix; groups 2 and 3
UrlMatch(url) ==
    LET ends == { p \in PrefixEnds(url) : TailMatches(url, p) }
    IN  IF ends = {} THEN NoParts
        ELSE LET p == CHOOSE q \in ends : \A r \in ends : r <= q
             IN  Parts(SubSeq(url, p + 1, p + IdLen),
                       IF Len(url) - p = IdLen THEN NONE
                       ELSE SubSeq(url, p + IdLen + 2, Len(url)))

GetUrlParts(url) ==
    LET urlMatch == UrlMatch(url)
    IN  IF urlMatch = NoParts THEN IncorrectFormat
        ELSE Parts(urlMatch.inboundId, OrElse(urlMatch.path, Post))

UrlInit ==
    /\ gurl = << >>
    /\ gparts = NoParts

\* a caller hands getUrlParts a URL
GetUrlPartsCall(url) ==
    /\ gurl' = url
    /\ gparts' = GetUrlParts(url)
    /\ UNCHANGED urlOthers

UrlNext == \E url \in Urls : GetUrlPartsCall(url)

(***************************************************************************)
(* SlackHookHandler.onRequest, handleEvent and handleWebhook (lines        *)
(* 544-702): one inbound HTTP request.                                     *)
(***************************************************************************)
Other == << "o", "t", "h", "e", "r" >>

\* what follows the inbound id in the URLs of the requests
HookSuffixes ==
    { << >>, Slash \o Post, Slash \o Authorize, Slash \o Authorize \o Query,
      Slash \o Other, Slash \o Other \o Query }

HookUrls ==
    { pre \o DigitRun(IdLen) \o suf : pre \in UrlPrefixes \ {<< >>}, suf \in HookSuffixes }
        \cup { Slash \o DigitRun(IdLen - 1) }

\* a request: its method, whether its content-type is application/json, its
\* URL, whether rooms.getByInboundId finds a room, and for a JSON body whether
\* it parses, its type and whether it has a team_id
HookReq(method, json, url, bound, type, team) ==
    [method |-> method, json |-> json, url |-> url, bound |-> bound,
     type |-> type, team |-> team]

NoHookReq == HookReq("none", FALSE, << >>, FALSE, "none", FALSE)

\* Events API payloads, with and without a team_id
EventRequests ==
    { HookReq("POST", TRUE, Slash \o DigitRun(IdLen), FALSE, type, team) :
        type \in {"unparsable", "other", "event_callback", "url_verification"},
        team \in BOOLEAN }

\* every other request: its body is not looked at as JSON
WebhookRequests ==
    { r \in { HookReq(method, json, url, bound, "none", FALSE) :
                method \in {"GET", "POST", "HEAD"}, json \in BOOLEAN, url \in HookUrls,
                bound \in BOOLEAN } : ~(r.json /\ r.method = "POST") }

HookRequests == EventRequests \cup WebhookRequests

\* a ServerResponse: the writeHead calls, the write calls and the end calls
NoResponse == [heads |-> << >>, body |-> << >>, ends |-> 0]
WriteHead(res, code, ctype) ==
    [res EXCEPT !.heads = Append(@, [code |-> code, ctype |-> ctype])]
Write(res, text) == [res EXCEPT !.body = Append(@, text)]
End(res) == [res EXCEPT !.ends = @ + 1]
Finished(res) == res.ends > 0

\* eventsResponse of lines 580-590
EventsResponse(res, resStatus, resBody, resHeaders) ==
    LET head == WriteHead(res, resStatus, resHeaders)
    IN  End(IF resBody # "" THEN Write(head, resBody) ELSE head)

\* the catch of lines 565-575
OnRequestCatch(res, method) ==
    IF Finished(res) THEN res
    ELSE LET head == WriteHead(res, 500, "text/plain")
         IN  End(IF method # "HEAD" THEN Write(head, "Internal Server Error") ELSE head)

\* path.match(/^([^?]+)(?:\?(.*))$/) of line 648: group 1, the path before
\* the first question mark, or NONE when there is no match (no question mark,
\* or nothing before it)
QueryMatch(path) ==
    LET marks == { i \in 1..Len(path) : path[i] = "?" }
    IN  IF marks = {} THEN NONE
        ELSE LET i == CHOOSE k \in marks : \A j \in marks : k <= j
             IN  IF i = 1 THEN NONE ELSE SubSeq(path, 1, i - 1)

\* eventHandler.onVerifyUrl: echoes the challenge with status 200
OnVerifyUrl(res) == EventsResponse(res, 200, "challenge", "application/json")

\* eventHandler.handle: acknowledges receipt of the event
HandleResponds(res) == EventsResponse(res, 200, "", "none")

\* the pages handleAuthorize returns to handleWebhook
AuthorizePages ==
    { NotConfiguredPage, TokenUnknownPage, TeamLimitPage, SuccessPage("token"),
      SuccessPage("room") }

\* lines 773-784 and 796-798: the pages handleAuthorize can return for a
\* request, given a room when the inbound id is bound and a token otherwise
PagesFor(req) ==
    IF req.bound THEN { NotConfiguredPage, SuccessPage("room") }
    ELSE { NotConfiguredPage, TokenUnknownPage, TeamLimitPage, SuccessPage("token") }

\* how lookupMessage ends (lines 867-902): it returns a message, or throws
\* one of its two errors, or the rejection of conversations.history
Miss == "Could not find history"
LookupOutcomes == { "returned", Miss, "Collision", "rejected" }

\* the parameters of a post that handlePost reads (user_id, text), and the
\* room: whether setting its channel name leaves it dirty, whether it has a
\* SlackClient
PostParams(user_id, text, dirty, hasClient) ==
    [user_id |-> user_id, text |-> text, dirty |-> dirty, client |-> hasClient]

NoPost == PostParams("none", FALSE, FALSE, FALSE)

Posts ==
    { PostParams(user_id, text, dirty, hasClient) :
        user_id \in {"USLACKBOT", "U1A"}, text \in BOOLEAN, dirty \in BOOLEAN,
        hasClient \in BOOLEAN }

HookInit ==
    /\ wpc = "idle"
    /\ wreq = NoHookReq
    /\ wres = NoResponse
    /\ wtimer = << >>
    /\ wpost = NoPost
    /\ wcalls = << >>
    /\ wlookup = "none"

\* lines 579-607: handleEvent, with the catch of onRequest around it
HandleEvent(req) ==
    /\ UNCHANGED wtimer
    /\ IF req.type = "unparsable"
       THEN \* JSON.parse throws
            /\ wres' = OnRequestCatch(wres, req.method)
            /\ wpc' = "caught"
            /\ UNCHANGED wcalls
       ELSE IF req.type \notin {"url_verification", "event_callback"}
       THEN /\ wres' = wres
            /\ wpc' = "done"
            /\ UNCHANGED wcalls
       ELSE \* lines 592-593: onVerifyUrl answers, and handleEvent goes on
            LET verify == req.type = "url_verification"
                res == IF verify THEN OnVerifyUrl(wres) ELSE wres
                calls == IF verify THEN Append(wcalls, "onVerifyUrl") ELSE wcalls
            IN  IF ~req.team
                THEN \* line 597 reads team_id.toUpperCase() of a payload without team_id
                     /\ wres' = OnRequestCatch(res, req.method)
                     /\ wpc' = "caught"
                     /\ wcalls' = calls
                ELSE /\ wres' = res
                     /\ wpc' = "eventHandler.handle"
                     /\ wcalls' = Append(calls, "eventHandler.handle")

\* line 720: params.user_id === "USLACKBOT"
IsSlackbotNever(post) == FALSE

IsSlackbot(post) == post.user_id = "USLACKBOT"

\* lines 679-692: handlePost returned or threw
PostEnds(ok) ==
    /\ wtimer' = Append(wtimer, IF ok THEN "success" ELSE "fail")
    /\ wres' = End(WriteHead(wres, 200, "application/json"))
    /\ wpc' = "done"

\* handlePost, lines 720-759, up to its next await; calls are the calls made
\* for the request so far
PostFilter(post, calls) ==
    IF IsSlackbot(post)
    THEN /\ wcalls' = calls
         /\ PostEnds(TRUE)
    ELSE IF ~post.client
    THEN IF post.text
         THEN /\ wcalls' = calls \o << "incCounter", "onSlackMessage" >>
              /\ wpc' = "onSlackMessage"
              /\ UNCHANGED << wres, wtimer >>
         ELSE /\ wcalls' = Append(calls, "incCounter")
              /\ PostEnds(TRUE)
    ELSE /\ wcalls' = calls \o << "incCounter", "lookupMessage" >>
         /\ wpc' = "lookupMessage"
         /\ UNCHANGED << wres, wtimer >>

\* handlePost, lines 704-713: the channel name of the room is set, and the
\* room stored if that changed it
HandlePost(post) ==
    LET calls == Append(wcalls, "setSlackChannelName")
    IN  IF post.dirty
        THEN /\ wcalls' = Append(calls, "upsertRoom")
             /\ wpc' = "upsertRoom"
             /\ UNCHANGED << wres, wtimer >>
        ELSE PostFilter(post, calls)

\* lines 654 and 666: rooms.getByInboundId found no room
NoRoomNever(req) == FALSE

NoRoom(req) == ~req.bound

\* lines 626-702: handleWebhook up to its first await
HandleWebhook(req, post) ==
    LET res == GetUrlParts(req.url)
        result == QueryMatch(res.path)
        path == IF req.method = "GET" THEN result ELSE res.path
    IN  IF res = IncorrectFormat
        THEN /\ wres' = End(WriteHead(wres, 404, "text/plain"))
             /\ wtimer' = Append(wtimer, "dropped")
             /\ wpc' = "done"
             /\ UNCHANGED wcalls
        ELSE IF req.method = "GET" /\ result = NONE
        THEN \* result![1] of line 649 throws; onRequest logs the rejection
             /\ wpc' = "rejected"
             /\ UNCHANGED << wres, wtimer, wcalls >>
        ELSE IF req.method = "GET" /\ path = Authorize
        THEN /\ wpc' = "handleAuthorize"
             /\ wcalls' = Append(wcalls, "handleAuthorize")
             /\ UNCHANGED << wres, wtimer >>
        ELSE IF NoRoom(req)
        THEN /\ wres' = End(WriteHead(wres, 200, "text/plain"))
             /\ wtimer' = Append(wtimer, "dropped")
             /\ wpc' = "done"
             /\ wcalls' = Append(wcalls, "incCounter")
        ELSE IF req.method = "POST" /\ path = Post
        THEN HandlePost(post)
        ELSE /\ wres' = LET head == WriteHead(wres, 200, "application/json")
                       IN  End(IF req.method # "HEAD" THEN Write(head, "{}") ELSE head)
             /\ wtimer' = Append(wtimer, "dropped")
             /\ wpc' = "done"
             /\ UNCHANGED wcalls

\* lines 544-577: the request has been read
OnRequest(req, post) ==
    /\ wpc = "idle"
    /\ wreq' = req
    /\ wpost' = post
    /\ IF req.json /\ req.method = "POST" THEN HandleEvent(req) ELSE HandleWebhook(req, post)
    /\ UNCHANGED wlookup
    /\ UNCHANGED hookOthers

\* lines 658-664: handleAuthorize returned its page
HandleAuthorizeReturn(page) ==
    /\ wpc = "handleAuthorize"
    /\ page \in PagesFor(wreq)
    /\ wres' = End(Write(WriteHead(wres, IF page.code # 0 THEN page.code ELSE 200,
                                   "text/html"), page.html))
    /\ wtimer' = Append(wtimer, "success")
    /\ wpc' = "done"
    /\ UNCHANGED << wreq, wpost, wcalls, wlookup >>
    /\ UNCHANGED hookOthers

\* line 712: upsertRoom returned or failed
UpsertRoomReturn(ok) ==
    /\ wpc = "upsertRoom"
    /\ IF ok THEN PostFilter(wpost, wcalls)
       ELSE PostEnds(FALSE) /\ UNCHANGED wcalls
    /\ UNCHANGED << wreq, wpost, wlookup >>
    /\ UNCHANGED hookOthers

\* lines 744-748: the await of lookupMessage yields a result only when it
\* returned; each of its errors is thrown on into handlePost
LookupReturns(r) == r = "returned"

\* lines 744-758: lookupMessage returned or threw; the mentions are replaced next
LookupMessageReturn(r) ==
    /\ wpc = "lookupMessage"
    /\ wlookup' = r
    /\ IF LookupReturns(r)
       THEN /\ wcalls' = Append(wcalls, "doChannelUserReplacements")
            /\ wpc' = "doChannelUserReplacements"
            /\ UNCHANGED << wres, wtimer >>
       ELSE PostEnds(FALSE) /\ UNCHANGED wcalls
    /\ UNCHANGED << wreq, wpost >>
    /\ UNCHANGED hookOthers

\* lines 758-759: doChannelUserReplacements returned or threw; the message
\* is handed to the room
ReplacementsReturn(ok) ==
    /\ wpc = "doChannelUserReplacements"
    /\ IF ok
       THEN /\ wcalls' = Append(wcalls, "onSlackMessage")
            /\ wpc' = "onSlackMessage"
            /\ UNCHANGED << wres, wtimer >>
       ELSE PostEnds(FALSE) /\ UNCHANGED wcalls
    /\ UNCHANGED << wreq, wpost, wlookup >>
    /\ UNCHANGED hookOthers

\* lines 679-692: room.onSlackMessage, and with it handlePost, returned or threw
HandlePostReturn(ok) ==
    /\ wpc = "onSlackMessage"
    /\ PostEnds(ok)
    /\ UNCHANGED << wreq, wpost, wcalls, wlookup >>
    /\ UNCHANGED hookOthers

\* lines 598-606: the event handler has dealt with the event, or failed
EventHandleReturn(ok) ==
    /\ wpc = "eventHandler.handle"
    /\ wres' = HandleResponds(wres)
    /\ wpc' = IF ok THEN "done" ELSE "logged"
    /\ UNCHANGED << wreq, wtimer, wpost, wcalls, wlookup >>
    /\ UNCHANGED hookOthers

\* the post that comes with a request: only handlePost looks at it
PostsOf(req) ==
    IF /\ ~(req.json /\ req.method = "POST")
       /\ req.method = "POST"
       /\ GetUrlParts(req.url) # IncorrectFormat
       /\ GetUrlParts(req.url).path = Post
    THEN Posts ELSE {NoPost}

HookNext ==
    \/ \E req \in HookRequests : \E post \in PostsOf(req) : OnRequest(req, post)
    \/ \E page \in AuthorizePages : HandleAuthorizeReturn(page)
    \/ \E ok \in BOOLEAN : UpsertRoomReturn(ok)
    \/ \E r \in LookupOutcomes : LookupMessageReturn(r)
    \/ \E ok \in BOOLEAN : ReplacementsReturn(ok)
    \/ \E ok \in BOOLEAN : HandlePostReturn(ok)
    \/ \E ok \in BOOLEAN : EventHandleReturn(ok)

(***************************************************************************)
(* SlackGhost.sendTyping and cancelTyping (lines 386-403).                 *)
(***************************************************************************)
MaxTypingOps == 4

TypingRooms == { "!a", "!b" }

NoTypingOp == [op |-> "none", room |-> "none", was |-> FALSE, prev |-> "none",
               issued |-> FALSE, ok |-> TRUE]

TypingInit ==
    /\ typingInRooms = {}
    /\ typingCalls = << >>
    /\ roomOp = [r \in TypingRooms |-> "none"]
    /\ tlast = NoTypingOp
    /\ tops = 0

\* lines 386-390; ok: whether intent.sendTyping succeeded
SendTyping(roomId, ok) ==
    /\ tops < MaxTypingOps
    /\ tops' = tops + 1
    /\ typingInRooms' = typingInRooms \cup {roomId}
    /\ typingCalls' = Append(typingCalls, << roomId, TRUE >>)
    /\ roomOp' = [roomOp EXCEPT ![roomId] = "sendTyping"]
    /\ tlast' = [op |-> "sendTyping", room |-> roomId, was |-> roomId \in typingInRooms,
                 prev |-> roomOp[roomId], issued |-> TRUE, ok |-> ok]
    /\ UNCHANGED typingOthers

\* a cancelTyping that sends whatever is recorded
CancelTypingSendsAlways(roomId) == TRUE

\* line 397
CancelTypingSends(roomId) == roomId \in typingInRooms

\* lines 396-403
CancelTyping(roomId, ok) ==
    /\ tops < MaxTypingOps
    /\ tops' = tops + 1
    /\ IF CancelTypingSends(roomId)
       THEN /\ typingInRooms' = typingInRooms \ {roomId}
            /\ typingCalls' = Append(typingCalls, << roomId, FALSE >>)
       ELSE /\ ok
            /\ UNCHANGED << typingInRooms, typingCalls >>
    /\ roomOp' = [roomOp EXCEPT ![roomId] = "cancelTyping"]
    /\ tlast' = [op |-> "cancelTyping", room |-> roomId, was |-> roomId \in typingInRooms,
                 prev |-> roomOp[roomId], issued |-> Len(typingCalls') > Len(typingCalls),
                 ok |-> ok]
    /\ UNCHANGED typingOthers

TypingNext ==
    \/ \E r \in TypingRooms, ok \in BOOLEAN : SendTyping(r, ok)
    \/ \E r \in TypingRooms, ok \in BOOLEAN : CancelTyping(r, ok)

(***************************************************************************)
(* PgDatastore: activity metrics (lines 333-367).  A day is a calendar     *)
(* date; the days of the model lie in 2021.                                *)
(***************************************************************************)
MaxActivityOps == 2

CalDay(y, m, d) == [y |-> y, m |-> m, d |-> d]
BadDate == CalDay(0, 0, 0)

\* Date.prototype.getFullYear, getMonth (January is 0) and getDate
GetFullYear(date) == date.y
GetMonth(date) == date.m - 1
GetDate(date) == date.d

\* the template string of line 341: year, month and day between dashes
DateText(date) == << GetFullYear(date), GetMonth(date), GetDate(date) >>

DaysInMonth(m) == IF m = 2 THEN 28 ELSE IF m \in {4, 6, 9, 11} THEN 30 ELSE 31

\* the database reading 'Y-M-D' as a date: a month or a day out of range is an error
PgDate(text) ==
    IF text[2] \in 1..12 /\ text[3] \in 1..DaysInMonth(text[2])
    THEN CalDay(text[1], text[2], text[3])
    ELSE BadDate

\* current_date of the database, and new Date() of line 334
Today == CalDay(2021, 6, 20)

\* age(date): the difference from today in months and days, a day borrowed
\* from the month of the earlier date; the dates of the model are not after
\* today and in its year
Age(date) ==
    LET days == Today.d - date.d
        mons == Today.m - date.m
    IN  IF days < 0
        THEN [mons |-> mons - 1, days |-> days + DaysInMonth(date.m)]
        ELSE [mons |-> mons, days |-> days]

\* date_part('days', interval): the days field of the interval
DatePartDays(interval) == interval.days

\* the date argument: absent, or a day
NoDate == CalDay(0, 0, 1)
ActivityDates ==
    { NoDate, CalDay(2021, 7, 20), CalDay(2021, 7, 19), CalDay(2021, 5, 10),
      CalDay(2021, 1, 15) }

ActivityUsers == { "@u1", "@u2" }
ActivityRooms == { "r1", "r2", "r3" }

\* the rooms table: slack_team_id and slack_type of the json of each row; r3 has no row
RoomJson(roomId) ==
    IF roomId = "r3" THEN [slack_team_id |-> "", slack_type |-> ""]
    ELSE [slack_team_id |-> "T1", slack_type |-> "channel"]

ActivityRow(userId, roomId, date) == [user_id |-> userId, room_id |-> roomId, date |-> date]

\* the columns of cons_activities_unique
ActivityKey(row) == << row.user_id, row.room_id, row.date >>

\* an INSERT without ON CONFLICT, on a table without the constraint
InsertActivityPlain(rows, row) == Append(rows, row)

\* lines 337-340: INSERT ... ON CONFLICT ON CONSTRAINT cons_activities_unique DO NOTHING
InsertActivity(rows, row) ==
    IF \E i \in 1..Len(rows) : ActivityKey(rows[i]) = ActivityKey(row)
    THEN rows
    ELSE Append(rows, row)

NoActivityCall == [user |-> "none", room |-> "none", date |-> NoDate, stored |-> BadDate,
                   before |-> << >>, threw |-> FALSE]

NoActiveRooms == [threshold |-> 0, window |-> 0, counts |-> {}]

MetricsInit ==
    /\ activities = << >>
    /\ alast = NoActivityCall
    /\ aresult = NoActiveRooms
    /\ aops = 0

\* lines 333-345
UpsertActivityMetrics(userId, roomId, dateArg) ==
    LET date == IF dateArg = NoDate THEN Today ELSE dateArg
        stored == PgDate(DateText(date))
    IN  /\ aops < MaxActivityOps
        /\ aops' = aops + 1
        /\ activities' = IF stored = BadDate THEN activities
                         ELSE InsertActivity(activities, ActivityRow(userId, roomId, stored))
        /\ alast' = [user |-> userId, room |-> roomId, date |-> date, stored |-> stored,
                     before |-> activities, threw |-> stored = BadDate]
        /\ aresult' = NoActiveRooms
        /\ UNCHANGED metricOthers

\* lines 349-356: the rows of the query, one per active room
ActiveRoomRows(threshold, window) ==
    LET joined == { [room_id |-> activities[i].room_id,
                     team_id |-> RoomJson(activities[i].room_id).slack_team_id,
                     slack_type |-> RoomJson(activities[i].room_id).slack_type,
                     date |-> activities[i].date] : i \in 1..Len(activities) }
        inWindow == { r \in joined : DatePartDays(Age(r.date)) < window }
        groups == { [room_id |-> r.room_id, team_id |-> r.team_id,
                     slack_type |-> r.slack_type] : r \in inWindow }
        dates(grp) == { r.date : r \in { x \in inWindow : x.room_id = grp.room_id } }
    IN  { grp \in groups : Cardinality(dates(grp)) >= threshold }

\* lines 357-365: the rows counted by team and room type
CountByTeamAndType(rows) ==
    LET team(r) == IF r.team_id # "" THEN r.team_id ELSE "noteam"
        keys == { << team(r), r.slack_type >> : r \in rows }
    IN  { [team |-> k[1], type |-> k[2],
           count |-> Cardinality({ r \in rows : << team(r), r.slack_type >> = k })] : k \in keys }

\* lines 347-367
GetActiveRoomsPerTeam(threshold, window) ==
    /\ aresult' = [threshold |-> threshold, window |-> window,
                   counts |-> CountByTeamAndType(ActiveRoomRows(threshold, window))]
    /\ UNCHANGED << activities, alast, aops >>
    /\ UNCHANGED metricOthers

MetricsNext ==
    \/ \E u \in ActivityUsers, r \in ActivityRooms, d \in ActivityDates :
           UpsertActivityMetrics(u, r, d)
    \/ \E threshold \in {1, 2} : GetActiveRoomsPerTeam(threshold, 30)

(***************************************************************************)
(* PgDatastore: admin rooms (lines 314-331, 416-422).                      *)
(***************************************************************************)
MaxAdminOps == 3

AdminUsers == { "@a", "@b", "@c" }
AdminRoomIds == { "!x", "!y", "!z" }

AdminRow(matrixuser, roomid) == [matrixuser |-> matrixuser, roomid |-> roomid]

\* oneOrNone: null for no row, the row for one, a rejection for several
OneOrNone(found) ==
    IF found = {} THEN [kind |-> "null", row |-> AdminRow("", "")]
    ELSE IF Cardinality(found) = 1 THEN [kind |-> "row", row |-> CHOOSE r \in found : TRUE]
    ELSE [kind |-> "rejected", row |-> AdminRow("", "")]

\* lines 314-319
GetUserAdminRoom(rows, userid) ==
    LET res == OneOrNone({ rows[i] : i \in { k \in 1..Len(rows) : rows[k].matrixuser = userid } })
    IN  IF res.kind = "row" THEN res.row.roomid ELSE res.kind

\* lines 321-326
GetUserForAdminRoom(rows, roomId) ==
    LET res == OneOrNone({ rows[i] : i \in { k \in 1..Len(rows) : rows[k].roomid = roomId } })
    IN  IF res.kind = "row" THEN res.row.matrixuser ELSE res.kind

\* the uniqueness of the roomid column: another user's row has the room
RoomidTaken(rows, matrixuser, roomid) ==
    \E i \in 1..Len(rows) : rows[i].roomid = roomid /\ rows[i].matrixuser # matrixuser

\* an upsert that keeps the row it meets: ON CONFLICT (matrixuser) DO NOTHING
UpsertAdminRoomKeep(rows, matrixuser, roomid) ==
    IF \E i \in 1..Len(rows) : rows[i].matrixuser = matrixuser
    THEN rows
    ELSE Append(rows, AdminRow(matrixuser, roomid))

\* the statement BuildUpsertStatement gives line 329 (lines 416-422): INSERT
\* ... ON CONFLICT (matrixuser) DO UPDATE SET roomid = ${roomid}
UpsertAdminRoom(rows, matrixuser, roomid) ==
    IF \E i \in 1..Len(rows) : rows[i].matrixuser = matrixuser
    THEN [ i \in 1..Len(rows) |->
             IF rows[i].matrixuser = matrixuser THEN AdminRow(matrixuser, roomid) ELSE rows[i] ]
    ELSE Append(rows, AdminRow(matrixuser, roomid))

NoAdminCall == [user |-> "none", room |-> "none", threw |-> FALSE]

AdminInit ==
    /\ adminRooms = << >>
    /\ adlast = NoAdminCall
    /\ adops = 0

\* lines 328-331
SetUserAdminRoom(matrixuser, roomid) ==
    /\ adops < MaxAdminOps
    /\ adops' = adops + 1
    /\ adminRooms' = IF RoomidTaken(adminRooms, matrixuser, roomid) THEN adminRooms
                     ELSE UpsertAdminRoom(adminRooms, matrixuser, roomid)
    /\ adlast' = [user |-> matrixuser, room |-> roomid,
                  threw |-> RoomidTaken(adminRooms, matrixuser, roomid)]
    /\ UNCHANGED adminOthers

AdminNext == \E u \in AdminUsers, r \in AdminRoomIds : SetUserAdminRoom(u, r)

(***************************************************************************)
(* The embedded backend, as the Storage Contract describes its activity    *)
(* metrics, given the calls the relational backend is given.               *)
(***************************************************************************)
\* the number of a day in its year, and how many days before today it lies
DayOfYear(date) ==
    LET upTo[k \in 0..12] == IF k = 0 THEN 0 ELSE upTo[k - 1] + DaysInMonth(k)
    IN  upTo[date.m - 1] + date.d
DaysOld(date) == DayOfYear(Today) - DayOfYear(date)

\* getActiveRoomsPerTeam of the contract: the rooms with at least threshold
\* distinct days among the facts no older than window days, counted by team
\* and room type
ContractActiveRooms(facts, threshold, window) ==
    LET days(room) == { f.date : f \in { x \in facts : /\ x.room_id = room
                                                        /\ DaysOld(x.date) <= window } }
        active == { room \in ActivityRooms : Cardinality(days(room)) >= threshold }
        key(room) == << IF RoomJson(room).slack_team_id # "" THEN RoomJson(room).slack_team_id
                        ELSE "noteam", RoomJson(room).slack_type >>
    IN  { [team |-> k[1], type |-> k[2],
           count |-> Cardinality({ room \in active : key(room) = k })] :
             k \in { key(room) : room \in active } }

EmbeddedInit ==
    /\ efacts = {}
    /\ elast = NoActivityCall
    /\ eresult = NoActiveRooms
    /\ eseen = 0

\* upsertActivityMetrics of the contract, with the arguments of the latest
\* call to the relational backend: the fact of that day joins the set
EmbeddedUpsertActivityMetrics ==
    /\ eseen < aops
    /\ eseen' = aops
    /\ efacts' = efacts \cup { ActivityRow(alast.user, alast.room, alast.date) }
    /\ elast' = [alast EXCEPT !.stored = alast.date, !.before = << >>, !.threw = FALSE]
    /\ eresult' = NoActiveRooms
    /\ UNCHANGED embedOthers

\* getActiveRoomsPerTeam of the contract, with the arguments of the latest
\* call to the relational backend
EmbeddedGetActiveRoomsPerTeam ==
    /\ eseen = aops
    /\ aresult # NoActiveRooms
    /\ eresult' = [threshold |-> aresult.threshold, window |-> aresult.window,
                   counts |-> ContractActiveRooms(efacts, aresult.threshold, aresult.window)]
    /\ UNCHANGED << efacts, elast, eseen >>
    /\ UNCHANGED embedOthers

\* the same calls on both backends, the relational one first
BackendsNext ==
    \/ \E u \in ActivityUsers, r \in ActivityRooms, d \in ActivityDates :
           eseen = aops /\ UpsertActivityMetrics(u, r, d)
    \/ \E threshold \in {1, 2} : eseen = aops /\ GetActiveRoomsPerTeam(threshold, 30)
    \/ EmbeddedUpsertActivityMetrics
    \/ EmbeddedGetActiveRoomsPerTeam

(***************************************************************************)
(* SlackGhost.updateFromISlackUser (lines 119-156), on the ghost of        *)
(* update().                                                               *)
(***************************************************************************)
\* updateFromISlackUser calls in one run of the model
MaxUserUpdates == 1

\* an ISlackUser: whether it has a profile, profile.display_name, the largest
\* image defined and profile.avatar_hash
SlackUser(profile, display_name, url, hash) ==
    [profile |-> profile, display_name |-> display_name, url |-> url, hash |-> hash]

NoSlackUser == SlackUser(FALSE, NONE, NONE, NONE)

SlackUsers ==
    { NoSlackUser,
      SlackUser(TRUE, <<"alice">>, <<"https://a/img1">>, <<"h1">>),
      SlackUser(TRUE, <<"zoe">>, NONE, NONE) }

FromUserInit ==
    /\ fpc = "idle"
    /\ fuser = NoSlackUser
    /\ fchanged = FALSE
    /\ fsnap = ToEntry(GhostIdentity)
    /\ fruns = 0

\* what the actions of updateFromISlackUser leave alone
fromOthers ==
    << updateInProgress, userInfoCache, userInfoLoading, cacheTimers, fetchResp, fetchBy,
       upc, msg, client, dpc, dname, dsnap, apc, aurl, ahash, asnap, lkOn, lkVal,
       mutCalls, startedDuring, arrivedDuring, syncVars,
       events, consEvents, schemaVersion, applied, objVars, evVars, schemaVars, sendVars,
       lookupVars, authVars, urlVars, hookVars, typingVars, metricVars, adminVars,
       embedVars, roomVars >>

\* the call has ended: its locals are gone
FromUserEnds(pc) ==
    /\ fpc' = pc
    /\ fuser' = NoSlackUser
    /\ fchanged' = FALSE
    /\ fsnap' = ToEntry(GhostIdentity)

\* lines 119-128: up to the first await; nothing is tested before the profile
UpdateFromISlackUser(slackUser) ==
    /\ fpc \in {"idle", "done", "failed"}
    /\ fruns < MaxUserUpdates
    /\ fruns' = fruns + 1
    /\ ~SyncPending
    /\ IF ~slackUser.profile
       THEN FromUserEnds("done")
       ELSE /\ fuser' = slackUser
            /\ fchanged' = FALSE
            /\ UNCHANGED fsnap
            /\ IF /\ Truthy(slackUser.display_name)
                  /\ displayname # slackUser.display_name \o Suffix
               THEN fpc' = "setDisplayname"
               ELSE fpc' = "lookupAvatarUrl"
    /\ UNCHANGED << displayname, avatarHash, users >>
    /\ UNCHANGED fromOthers

\* lines 128-134: setDisplayname returned or threw
FuSetDisplayname(ok) ==
    /\ fpc = "setDisplayname"
    /\ ~SyncPending
    /\ IF ok
       THEN /\ displayname' = fuser.display_name \o Suffix
            /\ fchanged' = TRUE
            /\ fpc' = "lookupAvatarUrl"
            /\ UNCHANGED << fuser, fsnap >>
       ELSE /\ FromUserEnds("failed")
            /\ UNCHANGED displayname
    /\ UNCHANGED << avatarHash, users >>
    /\ UNCHANGED fruns
    /\ UNCHANGED fromOthers

\* lines 151-155: return, or hand the ghost to upsertUser, which takes its
\* entry at once (PgDatastore.ts line 42)
FuReturn(changed, name, hash) ==
    IF ~changed
    THEN FromUserEnds("done")
    ELSE /\ fpc' = "upsertUser"
         /\ fsnap' = ToEntry(Ghost(name, hash))
         /\ fchanged' = changed
         /\ UNCHANGED fuser

\* lines 134-136: lookupAvatarUrl of a user returned (lines 190-203)
FuLookupAvatarUrl ==
    /\ fpc = "lookupAvatarUrl"
    /\ ~SyncPending
    /\ IF Truthy(fuser.url) /\ Truthy(fuser.hash) /\ avatarHash # fuser.hash
       THEN /\ fpc' = "fetch"
            /\ UNCHANGED << fuser, fchanged, fsnap >>
       ELSE FuReturn(fchanged, displayname, avatarHash)
    /\ UNCHANGED << displayname, avatarHash, users >>
    /\ UNCHANGED fruns
    /\ UNCHANGED fromOthers

\* lines 136-142: the image fetch returned or threw
FuFetch(ok) ==
    /\ fpc = "fetch"
    /\ ~SyncPending
    /\ IF ok
       THEN fpc' = "uploadContent" /\ UNCHANGED << fuser, fchanged, fsnap >>
       ELSE FromUserEnds("failed")
    /\ UNCHANGED << displayname, avatarHash, users >>
    /\ UNCHANGED fruns
    /\ UNCHANGED fromOthers

\* lines 142-146: uploadContent returned or threw
FuUploadContent(ok) ==
    /\ fpc = "uploadContent"
    /\ ~SyncPending
    /\ IF ok
       THEN fpc' = "setAvatarUrl" /\ UNCHANGED << fuser, fchanged, fsnap >>
       ELSE FromUserEnds("failed")
    /\ UNCHANGED << displayname, avatarHash, users >>
    /\ UNCHANGED fruns
    /\ UNCHANGED fromOthers

\* lines 146-155: setAvatarUrl returned or threw
FuSetAvatarUrl(ok) ==
    /\ fpc = "setAvatarUrl"
    /\ ~SyncPending
    /\ IF ok
       THEN /\ avatarHash' = fuser.hash
            /\ FuReturn(TRUE, displayname, fuser.hash)
       ELSE /\ FromUserEnds("failed")
            /\ UNCHANGED avatarHash
    /\ UNCHANGED << displayname, users >>
    /\ UNCHANGED fruns
    /\ UNCHANGED fromOthers

\* line 155: upsertUser returned or threw
FuUpsertUser(ok) ==
    /\ fpc = "upsertUser"
    /\ ~SyncPending
    /\ users' = IF ok THEN UpsertUserRows(users, fsnap) ELSE users
    /\ FromUserEnds(IF ok THEN "done" ELSE "failed")
    /\ UNCHANGED << displayname, avatarHash >>
    /\ UNCHANGED fruns
    /\ UNCHANGED fromOthers

FromUserNext ==
    \/ \E slackUser \in SlackUsers : UpdateFromISlackUser(slackUser)
    \/ \E ok \in BOOLEAN : FuSetDisplayname(ok)
    \/ FuLookupAvatarUrl
    \/ \E ok \in BOOLEAN : FuFetch(ok)
    \/ \E ok \in BOOLEAN : FuUploadContent(ok)
    \/ \E ok \in BOOLEAN : FuSetAvatarUrl(ok)
    \/ \E ok \in BOOLEAN : FuUpsertUser(ok)

(***************************************************************************)
(* PgDatastore: the rooms table (lines 181-208).                           *)
(***************************************************************************)
MaxRoomOps == 3

RoomEntryIds == { "i1", "i2" }
RoomMatrixIds == { "!a", "!b" }
RoomRemoteIds == { "C1", "C2" }

\* the remote state of a room, as BridgedRoom.toEntry gives it: an object
\* some of whose fields may be undefined
RemoteKeys == << "name", "slack_team_id" >>
Remotes ==
    { [name |-> <<"general">>, slack_team_id |-> <<"T1">>],
      [name |-> <<"random">>, slack_team_id |-> NONE] }
NoRemote == [name |-> NONE, slack_team_id |-> NONE]

RoomEntry(id, matrix_id, remote_id, remote) ==
    [id |-> id, matrix_id |-> matrix_id, remote_id |-> remote_id, remote |-> remote]

NoRoomEntry == RoomEntry("none", "none", "none", NoRemote)

RoomEntries ==
    { RoomEntry(id, matrix_id, remote_id, remote) :
        id \in RoomEntryIds, matrix_id \in RoomMatrixIds, remote_id \in RoomRemoteIds,
        remote \in Remotes }

\* JSON.stringify(entry.remote) of line 188 and JSON.parse(r.json) of line 200
RemoteStringify(remote) == StringifyKeys(remote, RemoteKeys, 1)
RemoteParse(json) ==
    [k \in { RemoteKeys[i] : i \in 1..Len(RemoteKeys) } |-> JsonField(json, k)]

RoomRow(entry) ==
    [id |-> entry.id, roomid |-> entry.matrix_id, remoteid |-> entry.remote_id,
     json |-> RemoteStringify(entry.remote)]

\* an upsert that replaces the whole row it meets
UpsertRoomRowsWhole(rows, entry) ==
    { r \in rows : r.id # entry.id } \cup { RoomRow(entry) }

\* line 184: INSERT INTO rooms VALUES(id, roomid, remoteid, json)
\* ON CONFLICT (id) DO UPDATE SET json = json
UpsertRoomRows(rows, entry) ==
    IF \E r \in rows : r.id = entry.id
    THEN { IF r.id = entry.id THEN [r EXCEPT !.json = RemoteStringify(entry.remote)] ELSE r
           : r \in rows }
    ELSE rows \cup { RoomRow(entry) }

\* lines 197-208: getAllRooms
GetAllRooms(rows) ==
    { RoomEntry(r.id, r.roomid, r.remoteid, RemoteParse(r.json)) : r \in rows }

NoRoomCall == [entry |-> NoRoomEntry, before |-> {}, threw |-> FALSE]

RoomsInit ==
    /\ roomRows = {}
    /\ rfirst = [id \in RoomEntryIds |-> NoRoomEntry]
    /\ rlatest = [id \in RoomEntryIds |-> NoRoomEntry]
    /\ rlast = NoRoomCall
    /\ rops = 0

\* lines 181-190: upsertRoom; the INSERT is done or rejected
UpsertRoom(entry, ok) ==
    /\ rops < MaxRoomOps
    /\ rops' = rops + 1
    /\ rlast' = [entry |-> entry, before |-> roomRows, threw |-> ~ok]
    /\ IF ok
       THEN /\ roomRows' = UpsertRoomRows(roomRows, entry)
            /\ rfirst' = IF rfirst[entry.id] = NoRoomEntry
                         THEN [rfirst EXCEPT ![entry.id] = entry] ELSE rfirst
            /\ rlatest' = [rlatest EXCEPT ![entry.id] = entry]
       ELSE UNCHANGED << roomRows, rfirst, rlatest >>
    /\ UNCHANGED roomOthers

RoomsNext == \E entry \in RoomEntries, ok \in BOOLEAN : UpsertRoom(entry, ok)

(***************************************************************************)
(* Specifications: one per component; the other components stand still.    *)
(***************************************************************************)
\* the tables before anything was stored; the schema is the latest
TablesInit ==
    /\ users = {}
    /\ events = {}
    /\ consEvents = "matrix"
    /\ schemaVersion = LATEST_SCHEMA
    /\ applied = Migrations(LATEST_SCHEMA)

\* everything but the tables, after construction
ObjectsInit ==
    /\ GhostInit
    /\ ObjInit
    /\ lastEvent = NoEventCall
    /\ SchemaInit
    /\ SendInit
    /\ LookupInit
    /\ AuthInit
    /\ UrlInit
    /\ HookInit
    /\ TypingInit
    /\ MetricsInit
    /\ AdminInit
    /\ EmbeddedInit
    /\ FromUserInit
    /\ RoomsInit

\* SlackGhost.update and what it calls
Init == ObjectsInit /\ TablesInit /\ tracing = FALSE

Next == GhostNext

Spec == Init /\ [][Next]_vars

\* SlackGhost.update with the record of its profile syncs
InitSync == ObjectsInit /\ TablesInit /\ tracing = TRUE

SpecSync == InitSync /\ [][Next]_vars

\* the users table and the ghosts built from it
SpecUsers == Init /\ [][UsersNext]_vars

\* the events table under either key of its unique constraint
InitEvents ==
    /\ ObjectsInit
    /\ tracing = FALSE
    /\ users = {}
    /\ events = {}
    /\ consEvents \in {"matrix", "slack"}
    /\ schemaVersion = LATEST_SCHEMA
    /\ applied = Migrations(LATEST_SCHEMA)

SpecEvents == InitEvents /\ [][EventsNext]_vars

\* ensureSchema on a database at any version up to the latest
InitSchema ==
    /\ ObjectsInit
    /\ tracing = FALSE
    /\ users = {}
    /\ events = {}
    /\ consEvents = "matrix"
    /\ schemaVersion \in 0..LATEST_SCHEMA
    /\ applied = Migrations(schemaVersion)

SpecSchema == InitSchema /\ [][SchemaNext]_vars

\* the send operations of a ghost
SpecSend == Init /\ [][SendNext]_vars

\* SlackHookHandler.lookupMessage
SpecLookup == Init /\ [][LookupNext]_vars

\* SlackHookHandler.handleAuthorize
SpecAuth == Init /\ [][AuthNext]_vars

\* SlackHookHandler.getUrlParts on one URL
SpecUrl == Init /\ [][UrlNext]_vars

\* SlackHookHandler.onRequest on one request
SpecHook == Init /\ [][HookNext]_vars

\* the typing relay of a ghost
SpecTyping == Init /\ [][TypingNext]_vars

\* the activity metrics of the datastore
SpecMetrics == Init /\ [][MetricsNext]_vars

\* the admin rooms of the datastore
SpecAdmin == Init /\ [][AdminNext]_vars

\* both backends given the same activity-metrics calls
SpecBackends == Init /\ [][BackendsNext]_vars

\* the steps that continue an update once it has started: the event loop
\* resumes what can run, and every collaborator call returns or fails
GhostProgress ==
    \/ \E c \in Calls : DnBegin(c)
    \/ \E c \in Calls : AvBegin(c)
    \/ \E c \in Calls, r \in BotResponses : DnBotsInfo(c, r)
    \/ \E c \in Calls : DnGotUser(c)
    \/ \E c \in Calls, ok \in BOOLEAN : DnSetDisplayName(c, ok)
    \/ \E c \in Calls, ok \in BOOLEAN : DnUpsertUser(c, ok)
    \/ \E c \in Calls, r \in BotResponses : AvBotsInfo(c, r)
    \/ \E c \in Calls : AvGotUser(c)
    \/ \E c \in Calls, ok \in BOOLEAN : AvFetch(c, ok)
    \/ \E c \in Calls, ok \in BOOLEAN : AvUploadContent(c, ok)
    \/ \E c \in Calls, ok \in BOOLEAN : AvSetAvatarUrl(c, ok)
    \/ \E c \in Calls, ok \in BOOLEAN : AvUpsertUser(c, ok)
    \/ \E f \in Fetches, r \in UserResponses : FetchSettle(f, r)
    \/ \E s \in Subs : LkFetchResume(s)
    \/ \E s \in Subs : LkWaitResume(s)
    \/ \E c \in Calls : UpdateFinish(c)

\* SlackGhost.update when every pending step is eventually taken
SpecLive == Init /\ [][Next]_vars /\ WF_vars(GhostProgress)

\* SlackGhost.update and SlackGhost.updateFromISlackUser on one ghost
ProfileNext == GhostNext \/ FromUserNext

SpecProfile == Init /\ [][ProfileNext]_vars

\* the rooms table of the datastore
SpecRooms == Init /\ [][RoomsNext]_vars

(***************************************************************************)
(* Properties.                                                             *)
(***************************************************************************)
Range(f) == { f[i] : i \in DOMAIN f }

\* C1: an update() that starts while another update() of the ghost is running
\* is dropped: it issues no set-display-name, upload or set-avatar call, none
\* of its sub-operations ever starts (it is neither queued nor retried), and
\* so at most one update() of the ghost is running at any time.
SecondUpdateDropped ==
    /\ Cardinality({ c \in Calls : upc[c] = "awaiting" }) <= 1
    /\ \A c \in Calls :
          startedDuring[c] =>
             /\ upc[c] = "dropped"
             /\ dpc[c] = "idle"
             /\ apc[c] = "idle"
             /\ \A m \in mutCalls : m[1] # c

\* a call is dropped while the running one has issued setDisplayName
SecondUpdateDroppedWitness ==
    \E c1, c2 \in Calls :
       /\ c1 # c2
       /\ upc[c1] = "awaiting"
       /\ << c1, "setDisplayName" >> \in mutCalls
       /\ startedDuring[c2]
       /\ upc[c2] = "dropped"

\* C2: update() never fails to its caller, whatever the displayname sync and
\* the avatar sync do; it returns only when both have run to their own end,
\* each of which may be a success or a failure, and the failure of one leaves
\* the other where it is.
UpdateNeverThrows ==
    \A c \in Calls :
       /\ upc[c] # "threw"
       /\ upc[c] = "done" =>
             /\ dpc[c] \in {"done", "failed"}
             /\ apc[c] \in {"done", "failed"}
             /\ ~(updateInProgress /\ \A o \in Calls : upc[o] # "awaiting")
       /\ upc[c] = "awaiting" => updateInProgress

\* the first update() returned after its displayname sync failed and its
\* avatar sync set the avatar, the second after its avatar sync failed and
\* its displayname sync ended well
UpdateNeverThrowsWitness ==
    /\ upc[1] = "done"
    /\ dpc[1] = "failed"
    /\ apc[1] = "done"
    /\ avatarHash # GhostIdentity.avatarHash
    /\ upc[2] = "done"
    /\ dpc[2] = "done"
    /\ apc[2] = "failed"

\* C3: at most one users.info call of the ghost is in flight; a caller of
\* lookupUserInfo that arrives while one is in flight issues no call of its
\* own, awaits that one and gets what it answered.
OneFetchInFlight ==
    /\ Cardinality(InFlight) <= 1
    /\ \A s \in Subs :
          arrivedDuring[s] # 0 =>
             /\ \A f \in Fetches : fetchBy[f] # s
             /\ Pc(s) = "lkWait" => lkOn[s] = arrivedDuring[s]
             /\ Pc(s) = "gotUser" =>
                   LET r == fetchResp[arrivedDuring[s]]
                   IN lkVal[s] = IF r.kind = "nouser" THEN NoResp ELSE r

\* a caller that arrived during a fetch has resumed with the user it answered
OneFetchInFlightWitness ==
    \E s \in Subs :
       /\ arrivedDuring[s] # 0
       /\ Pc(s) = "gotUser"
       /\ lkVal[s].kind = "user"
       /\ fetchBy[arrivedDuring[s]] # s

\* the EventEntry a send operation has to record
SendEntry(o) ==
    PositionalEntry(sop[o].roomId, sevent[o], sop[o].slackRoomId, sop[o].slackEventTs,
                    UndefinedExtras)

\* C4: a send operation asks for the EventEntry (roomId, new event id, Slack
\* channel, Slack ts) to be written if and only if the Intent delivered the
\* message, and never before; an operation that returns has its entry in the
\* store; one whose delivery failed has none; one whose write failed after
\* the delivery fails, with the message delivered and no entry stored.
EntryWrittenIffDelivered ==
    /\ \A o \in Sends :
          /\ delivered[o] <=> upsertCalls[o] # << >>
          /\ delivered[o] => upsertCalls[o] = << SendEntry(o) >> /\ sevent[o] # 0
          /\ delivered[o] => spc[o] \in {"upsertEvent", "returned", "failed"}
          /\ spc[o] = "returned" => delivered[o] /\ SendEntry(o) \in eventStore
          /\ spc[o] = "failed" /\ delivered[o] => SendEntry(o) \notin eventStore
          /\ ~delivered[o] => \A e \in eventStore : e.eventId # sevent[o]
    /\ \A e \in eventStore : \E o \in Sends : delivered[o] /\ e = SendEntry(o)

\* one operation returned with its entry stored, another failed on the write
\* after its delivery
EntryWrittenIffDeliveredWitness ==
    \E o, q \in Sends :
       /\ spc[o] = "returned"
       /\ SendEntry(o) \in eventStore
       /\ spc[q] = "failed"
       /\ delivered[q]

\* C5: lookupMessage asks for the history at exactly the timestamp given; a
\* response that is not ok or has no message fails with "Could not find
\* history", one with two or more messages fails with "Collision" and chooses
\* none, one with exactly one message returns that message, with content
\* exactly when it is a file share whose sharing and fetch both succeeded.
LookupMessageVerdict ==
    /\ lpc # "idle" =>
          lquery = [channel |-> largs.channelID, inclusive |-> TRUE,
                    latest |-> largs.timestamp, oldest |-> largs.timestamp]
    /\ lpc = "end" /\ lresp.kind = "response" =>
          LET n == Len(lresp.messages)
              found == lresp.ok /\ lresp.hasMessages
          IN /\ ~found \/ n = 0 =>
                   lresult = LookupResult("threw", "Could not find history", NoMessage, NONE)
             /\ found /\ n >= 2 =>
                   lresult = LookupResult("threw", "Collision", NoMessage, NONE)
             /\ found /\ n = 1 =>
                   /\ lresult.status = "returned"
                   /\ lresult.message.text = lresp.messages[1].text
                   /\ lresult.message.subtype = lresp.messages[1].subtype
                   /\ lresult.content # NONE <=>
                         /\ lresp.messages[1].subtype = << "file_share" >>
                         /\ lshare = "ok"
                         /\ lfetch = "ok"

\* the one message found was a file share and came back with its content
LookupMessageVerdictWitness ==
    /\ lpc = "end"
    /\ lresp.kind = "response"
    /\ Len(lresp.messages) = 1
    /\ lresult.status = "returned"
    /\ lresult.content # NONE

\* C6: when willExceedTeamLimit answered true, handleAuthorize attempts the
\* revoke, calls neither setUserAccessToken nor upsertTeamByToken, and ends
\* with the 403 team-limit page whether the revoke went through or not.
TeamLimitRejects ==
    limitHit =>
       /\ "createTeamClient" \in Range(hcalls)
       /\ "setUserAccessToken" \notin Range(hcalls)
       /\ "upsertTeamByToken" \notin Range(hcalls)
       /\ hpc \in {"createTeamClient", "auth.revoke", "end"}
       /\ hpc = "end" => hresult = TeamLimitPage /\ hresult.code = 403

\* the limit was hit, the revoke failed, and the request ended
TeamLimitRejectsWitness ==
    /\ limitHit
    /\ hpc = "end"
    /\ revokeOutcome = "failed"
    /\ "auth.revoke" \in Range(hcalls)

\* the run of ensureSchema has read the stored version
VersionRead ==
    \/ epc \in {"runSchema", "updateSchemaVersion", "done"}
    \/ epc = "failed" /\ failAt.kind # "read"

\* C7: from a stored version v <= LATEST_SCHEMA, ensureSchema runs the
\* migrations v+1, v+2, ... in that order, the stored version goes up by one
\* after each, and it is LATEST_SCHEMA at the end; when the migration of step
\* k throws the call fails with step k the last one run and version k - 1.
SchemaStepwise ==
    VersionRead =>
       LET n == Len(runSteps)
           w == Len(versionWrites)
       IN /\ \A i \in 1..n : runSteps[i] = startVersion + i
          /\ \A i \in 1..w : versionWrites[i] = startVersion + i
          /\ schemaVersion = startVersion + w
          /\ w <= n /\ n <= w + 1
          /\ startVersion + n <= LATEST_SCHEMA
          /\ epc = "done" => schemaVersion = LATEST_SCHEMA /\ n = w
          /\ epc = "failed" /\ failAt.kind = "script" =>
                /\ n >= 1
                /\ runSteps[n] = failAt.step
                /\ schemaVersion = failAt.step - 1

\* a migration threw after at least two steps went through
SchemaStepwiseWitness ==
    /\ epc = "failed"
    /\ failAt.kind = "script"
    /\ failAt.step >= startVersion + 3
    /\ schemaVersion = failAt.step - 1

UpsertUserReplaces ==
    \A id \in UserIds :
       IF lastUpsert[id].entry = NoEntry
       THEN /\ GetUser(users, id) = [result |-> "null"]
            /\ ~\E r \in users : r.userId = id
       ELSE /\ GetUser(users, id) = [result |-> "entry", entry |-> lastUpsert[id].entry]
            /\ Cardinality({ r \in users : r.userId = id }) = 1

\* one id was stored twice with different entries, the other never
UpsertUserReplacesWitness ==
    \E id, other \in UserIds :
       /\ lastUpsert[id].replaced
       /\ GetUser(users, id).result = "entry"
       /\ GetUser(users, other).result = "null"

IsUpperCase(str) == \A i \in 1..Len(str) : str[i] \notin LowerChars

\* C10: a ghost has an uppercase slackId and, when it has a teamId, an
\* uppercase teamId, whatever the case of the ids it was constructed with;
\* so has its toEntry(), and so has every entry read from the users table.
IdsUppercase ==
    /\ obj # NoGhost =>
          /\ IsUpperCase(obj.slackId)
          /\ obj.slackId = ToUpperCase(objRaw.slackId)
          /\ obj.teamId # NONE => IsUpperCase(obj.teamId)
          /\ obj.teamId = NONE <=> objRaw.teamId = NONE
          /\ IsUpperCase(ToEntry(obj).slack_id)
          /\ ToEntry(obj).team_id # NONE => IsUpperCase(ToEntry(obj).team_id)
    /\ \A r \in users :
          /\ IsUpperCase(JsonParse(r.json).slack_id)
          /\ JsonParse(r.json).team_id # NONE => IsUpperCase(JsonParse(r.json).team_id)

\* a ghost built from lowercase ids is stored
IdsUppercaseWitness ==
    /\ obj # NoGhost
    /\ ~IsUpperCase(objRaw.slackId)
    /\ Truthy(objRaw.teamId)
    /\ ~IsUpperCase(objRaw.teamId)
    /\ \E r \in users : r.userId = obj.userId /\ JsonParse(r.json) = ToEntry(obj)

\* the part of a URL before its query string
PathPart(url) ==
    IF \E i \in 1..Len(url) : url[i] = "?"
    THEN SubSeq(url, 1, (CHOOSE i \in 1..Len(url) : url[i] = "?" /\ \A j \in 1..(i - 1) : url[j] # "?") - 1)
    ELSE url

\* a path has a segment of exactly IdLen characters between slashes (or its ends)
HasIdSegment(path) ==
    \E a \in 0..Len(path) :
        /\ a = 0 \/ path[a] = "/"
        /\ a + IdLen <= Len(path)
        /\ \A i \in (a + 1)..(a + IdLen) : path[i] # "/"
        /\ a + IdLen = Len(path) \/ path[a + IdLen + 1] = "/"

\* the subpaths and query strings of the URL form /.../<id>[/<subpath>][?query]
FormSubpaths == { << >>, Slash \o Authorize, Slash \o Post }
FormQueries == { << >>, Query }

\* C11: on /.../<32-char-id>[/<subpath>][?query] getUrlParts returns the 32
\* characters as inboundId and the subpath without the query string as path
\* ("post" when there is no subpath), and on every URL without a 32-character
\* path segment it raises the malformed-URL error
UrlPartsAsSpecified ==
    gparts # NoParts =>
        /\ \A pre \in UrlPrefixes \ {<< >>}, sub \in FormSubpaths, q \in FormQueries :
               gurl = pre \o DigitRun(IdLen) \o sub \o q =>
                   gparts = Parts(DigitRun(IdLen),
                                  IF sub = << >> THEN Post ELSE SubSeq(sub, 2, Len(sub)))
        /\ ~HasIdSegment(PathPart(gurl)) => gparts = IncorrectFormat

\* the handling of the request has come to its end: it returned, its failure
\* was caught by onRequest, or its rejection was logged
HookSettled == wpc \in {"done", "caught", "rejected", "logged"}

\* the request went to handleWebhook
IsWebhook(req) == req # NoHookReq /\ ~(req.json /\ req.method = "POST")

\* C12: for every request handled by handleWebhook, on every branch, the
\* request timer is ended exactly once, with outcome success, fail or dropped
TimerEndedOnce ==
    IsWebhook(wreq) =>
        /\ Len(wtimer) <= 1
        /\ \A i \in 1..Len(wtimer) : wtimer[i] \in {"success", "fail", "dropped"}
        /\ HookSettled => Len(wtimer) = 1

\* C13: every request receives exactly one response, and a failure raised
\* while handling it, synchronously or inside handleWebhook, ends in a 500
\* response unless a response was already finished
ExactlyOneResponse ==
    HookSettled =>
        /\ Len(wres.heads) = 1
        /\ wres.ends = 1
        /\ wpc = "rejected" => wres.heads[1].code = 500

EndsWith(s, t) == Len(s) >= Len(t) /\ SubSeq(s, Len(s) - Len(t) + 1, Len(s)) = t

\* GET .../authorize and POST .../post ("post" being the default subpath)
IsAuthorizeGet(req) == req.method = "GET" /\ EndsWith(PathPart(req.url), Slash \o Authorize)
IsPostPost(req) ==
    /\ req.method = "POST"
    /\ \/ EndsWith(PathPart(req.url), Slash \o Post)
       \/ EndsWith(PathPart(req.url), Slash \o DigitRun(IdLen))

\* C17: a request that is neither an Events API callback, nor GET
\* .../authorize, nor POST .../post is answered with status 200 and the body
\* "{}", whether or not its inbound id resolves to a room (stated here for the
\* URLs that carry an inbound id, the methods that have a body and the
\* requests whose handling did not fail)
OtherRequestsGetEmptyObject ==
    /\ wpc = "done"
    /\ IsWebhook(wreq)
    /\ HasIdSegment(PathPart(wreq.url))
    /\ wreq.method # "HEAD"
    /\ ~IsAuthorizeGet(wreq)
    /\ ~IsPostPost(wreq)
    => /\ Len(wres.heads) = 1
       /\ wres.heads[1].code = 200
       /\ wres.body = << "{}" >>
       /\ wres.ends = 1

\* C18: cancelTyping issues the typing-off call only if the ghost is recorded
\* as typing in the room, and removes the record; a cancelTyping that follows
\* another cancelTyping for the same room with no sendTyping in between
\* issues no call
CancelTypingIdempotent ==
    tlast.op = "cancelTyping" =>
        /\ tlast.issued <=> tlast.was
        /\ tlast.issued => typingCalls[Len(typingCalls)] = << tlast.room, FALSE >>
        /\ tlast.room \notin typingInRooms
        /\ tlast.prev = "cancelTyping" => ~tlast.issued

CancelTypingIdempotentWitness ==
    /\ tlast.op = "cancelTyping"
    /\ tlast.prev = "cancelTyping"
    /\ ~tlast.issued
    /\ \E i \in 1..Len(typingCalls) : typingCalls[i] = << tlast.room, FALSE >>

\* C15: the stored activity facts hold at most one fact per (user, room,
\* day), and an upsertActivityMetrics call for a (user, room, day) that is
\* already stored leaves the stored facts unchanged
ActivityUpsertIdempotent ==
    /\ \A i, j \in 1..Len(activities) :
           ActivityKey(activities[i]) = ActivityKey(activities[j]) => i = j
    /\ \A i \in 1..Len(alast.before) :
           ActivityKey(alast.before[i]) = << alast.user, alast.room, alast.stored >>
               => activities = alast.before

ActivityUpsertIdempotentWitness ==
    /\ alast.user # "none"
    /\ \E i \in 1..Len(alast.before) :
           ActivityKey(alast.before[i]) = << alast.user, alast.room, alast.stored >>
    /\ activities = alast.before
    /\ Len(activities) >= 1

\* what the Storage Contract has getActiveRoomsPerTeam return for the stored facts
ExpectedActiveRooms(threshold, window) ==
    ContractActiveRooms(Range(activities), threshold, window)

\* C14: getActiveRoomsPerTeam(threshold, window) counts, per team and room
\* type, exactly the rooms with at least threshold distinct active days among
\* the activity facts no older than window days
ActiveRoomsAsSpecified ==
    aresult # NoActiveRooms =>
        aresult.counts = ExpectedActiveRooms(aresult.threshold, aresult.window)

BackendsAgree ==
    eseen = aops =>
        /\ elast.threw = alast.threw
        /\ eresult # NoActiveRooms /\ eresult.threshold = aresult.threshold
               => eresult.counts = aresult.counts

\* C20: every update() that set the in-progress flag eventually returns with
\* the flag cleared, whether its sync operations succeed or fail, provided
\* every collaborator call eventually returns or fails
UpdateReturnsToIdle ==
    \A c \in Calls : (upc[c] = "awaiting") ~> (upc[c] = "done" /\ ~updateInProgress)

\* an update whose two sync operations both failed has returned, the flag cleared
UpdateReturnsToIdleWitness ==
    \E c \in Calls :
        /\ upc[c] = "done"
        /\ dpc[c] = "failed"
        /\ apc[c] = "failed"
        /\ ~updateInProgress

\* updateDisplayname of call c has issued setDisplayName or upsertUser and
\* awaits it; updateAvatar has issued the fetch, the upload, setAvatarUrl or
\* upsertUser and awaits it
DnCalling(c) == dpc[c] \in {"setDisplayName", "upsertUser"}
AvCalling(c) == apc[c] \in {"fetch", "uploadContent", "setAvatarUrl", "upsertUser"}

\* call c is running with the message and the room of the update that
\* returned last, and that update succeeded in both syncs
RepeatsPrev(c) ==
    /\ upc[c] = "awaiting"
    /\ prev.dnOk /\ prev.avOk
    /\ msg[c] = prev.msg
    /\ client[c] = prev.client

\* two avatar syncs resolved the same url and the same hash
SameAvatar(a, b) == a.got = b.got /\ a.url = b.url /\ a.hash = b.hash

\* C21: no setDisplayName call is issued for a name (suffix included) equal to
\* the cached display name, no fetch, upload or setAvatarUrl for a hash equal
\* to the cached hash; and an update() that repeats the message of the
\* successful update() before it, and resolves the same name and the same
\* avatar, issues no call to the local platform and no upsertUser
ProfileSyncIdempotent ==
    \A c \in Calls :
        /\ dpc[c] = "setDisplayName" => dname[c] # displayname
        /\ apc[c] \in {"fetch", "uploadContent", "setAvatarUrl"} => ahash[c] # avatarHash
        /\ RepeatsPrev(c) /\ dres[c] = prev.dn =>
               ~DnCalling(c) /\ << c, "setDisplayName" >> \notin mutCalls
        /\ RepeatsPrev(c) /\ SameAvatar(ares[c], prev.av) =>
               /\ ~AvCalling(c)
               /\ << c, "uploadContent" >> \notin mutCalls
               /\ << c, "setAvatarUrl" >> \notin mutCalls

ProfileSyncIdempotentWitness ==
    \E c \in Calls :
        /\ RepeatsPrev(c)
        /\ dres[c].got /\ dres[c] = prev.dn /\ displayname = dres[c].name \o Suffix
        /\ ares[c].got /\ SameAvatar(ares[c], prev.av) /\ prev.av.tried
        /\ dpc[c] = "done" /\ apc[c] = "done"

\* the names bots.info can answer with
BotNames == { r.name : r \in { b \in BotResponses : b.kind = "bot" } }

\* C22: the name updateDisplayname resolves is the username field of the
\* message when it has one, otherwise the name of the bot-id lookup, otherwise
\* the name of the user-id profile lookup; the name compared with the cached
\* name and handed to setDisplayName is the resolved name with the suffix
DisplaynameByPriority ==
    \A c \in Calls :
        LET m == msg[c]
            user == lkVal[<< c, "dn" >>]
        IN  /\ dres[c].got /\ Truthy(m.username) => dres[c].name = m.username
            /\ dres[c].got /\ ~Truthy(m.username) /\ client[c] /\ m.bot_id =>
                   dres[c].name \in BotNames \cup {NONE}
            /\ dres[c].got /\ ~Truthy(m.username) /\ client[c] /\ ~m.bot_id /\ m.user_id =>
                   dres[c].name = IF user.kind = "user" THEN user.name ELSE NONE
            /\ dpc[c] = "setDisplayName" => dname[c] = dres[c].name \o Suffix
            /\ dres[c].got /\ Truthy(dres[c].name) /\ dpc[c] = "done" =>
                   displayname = dres[c].name \o Suffix

\* C23: an update() whose message carries both bot_id and user_id issues no
\* setDisplayName, no upload, no setAvatarUrl and no upsertUser, whatever the
\* other fields of the message and whether or not the room has a client
BotUserSkipsSync ==
    \A c \in Calls :
        msg[c].bot_id /\ msg[c].user_id =>
            /\ ~DnCalling(c)
            /\ apc[c] \notin {"uploadContent", "setAvatarUrl", "upsertUser"}
            /\ \A call \in mutCalls : call[1] # c

\* the update() that returned last tried to change the avatar and failed
\* before the cached hash was changed
PrevAvatarFailed ==
    /\ prev.av.tried
    /\ ~prev.avOk
    /\ prev.hash # prev.av.hash

\* one step of the avatar sync, as C24 has it
AvatarHashStep ==
    /\ avatarHash' # avatarHash =>
           \E c \in Calls :
               /\ apc[c] = "setAvatarUrl" /\ apc'[c] = "upsertUser"
               /\ << c, "uploadContent" >> \in mutCalls
               /\ << c, "setAvatarUrl" >> \in mutCalls
               /\ avatarHash' = ahash[c]
    /\ \A c \in Calls :
           /\ apc'[c] = "upsertUser" =>
                  /\ avatarHash' = ares'[c].hash
                  /\ asnap'[c].avatar_url = avatarHash'
                  /\ ares'[c].tried
           /\ apc[c] \in {"fetch", "uploadContent", "setAvatarUrl"} /\ apc'[c] = "failed" =>
                  avatarHash' = avatarHash /\ avatarHash' # ares'[c].hash
           /\ /\ upc'[c] = "awaiting"
              /\ PrevAvatarFailed'
              /\ ares'[c].got
              /\ SameAvatar(ares'[c], prev'.av)
              => ares'[c].tried

\* C24: the cached avatar hash changes only when setAvatarUrl has succeeded,
\* after the fetch and the upload; upsertUser is called only once the cached
\* hash is the new hash; a failure of the fetch, of the upload or of
\* setAvatarUrl leaves the cached hash as it was, and the next update() that
\* resolves the same avatar tries the change again
AvatarHashAfterSuccess == [][AvatarHashStep]_vars

AvatarHashAfterSuccessWitness ==
    \E c \in Calls :
        /\ upc[c] = "awaiting"
        /\ PrevAvatarFailed
        /\ ares[c].got /\ SameAvatar(ares[c], prev.av) /\ ares[c].tried
        /\ apc[c] = "upsertUser"

\* coroutine s enters lookupUserInfo in this step
EntersLookup(s) == Pc(s) = "begin" /\ Pc(s)' \in {"gotUser", "lkWait", "lkFetch"}

\* the users.info calls coroutine s has issued
FetchesBy(s) == { f \in Fetches : fetchBy[f] = s }

\* one step of the user-info cache, as C25 has it
UserInfoCacheStep ==
    \* the cache is filled by a successful fetch and emptied by its timer
    /\ userInfoCache' # userInfoCache =>
           \/ /\ userInfoCache = NoResp
              /\ \E f \in Fetches : fetchResp[f] = userInfoCache' /\ fetchResp[f].kind = "user"
              /\ cacheTimers = 0 /\ cacheTimers' = 1
           \/ /\ userInfoCache' = NoResp
              /\ cacheTimers = 1 /\ cacheTimers' = 0
    \* a lookup before the expiry is served from the cache
    /\ \A s \in Subs :
           EntersLookup(s) /\ userInfoCache # NoResp =>
               /\ cacheTimers = 1
               /\ Pc(s)' = "gotUser"
               /\ lkVal'[s] = userInfoCache
               /\ fetchResp' = fetchResp
               /\ userInfoLoading' = userInfoLoading
    \* the first lookup after the expiry issues one fetch
    /\ \A s \in Subs :
           afterExpiry = Expired /\ EntersLookup(s) =>
               /\ afterExpiry' = s
               /\ Pc(s)' = "lkFetch"
               /\ InFlight = {}
               /\ Cardinality(InFlight') = 1
               /\ \A f \in InFlight' : fetchBy'[f] = s /\ userInfoLoading' = f

\* C25: from a successful users.info fetch until the expiry of the cache every
\* lookupUserInfo returns the cached user and issues no remote call; the first
\* lookupUserInfo after the expiry issues exactly one users.info call
UserInfoCachedUntilExpiry == [][UserInfoCacheStep]_vars

UserInfoCachedUntilExpiryWitness ==
    /\ afterExpiry \in Subs
    /\ Pc(afterExpiry) = "gotUser"
    /\ userInfoCache.kind = "user"
    /\ lkVal[afterExpiry] = userInfoCache
    /\ Cardinality(FetchesBy(afterExpiry)) = 1

\* C26: a lookupUserInfo made after a failed users.info call has completed
\* issues a fresh call (it does not await the call that failed), and no
\* lookupUserInfo issues a second call in place of one that failed
FailedFetchRetriedByNext ==
    \A s \in Subs :
        /\ Pc(s) = "lkWait" => arrivedDuring[s] = lkOn[s]
        /\ Cardinality(FetchesBy(s)) <= 1

\* how many times the handling of the request made the call
Made(call) == Cardinality({ i \in 1..Len(wcalls) : wcalls[i] = call })

\* C27: for a url_verification callback only the challenge is echoed:
\* eventHandler.handle is not invoked and one response is written;
\* eventHandler.handle is invoked for an event_callback only, never more than
\* once, and once the payload has been read when it carries its team_id
EventsDispatchExclusive ==
    /\ wreq.type = "url_verification" =>
           /\ Made("eventHandler.handle") = 0
           /\ wpc # "idle" => wcalls = << "onVerifyUrl" >>
           /\ wpc # "idle" =>
                  /\ Len(wres.heads) = 1 /\ wres.heads[1].code = 200
                  /\ wres.body = << "challenge" >>
                  /\ wres.ends = 1
    /\ Made("eventHandler.handle") <= 1
    /\ Made("eventHandler.handle") = 1 => wreq.type = "event_callback"
    /\ wreq.type = "event_callback" /\ wreq.team => Made("eventHandler.handle") = 1
    /\ wreq.type = "event_callback" => Made("onVerifyUrl") = 0

\* the payload of an Events API callback parsed, and it is not one the
\* handler knows: its type is neither url_verification nor event_callback, or
\* it is an event_callback without team_id
UnexpectedPayload(req) ==
    /\ req.json /\ req.method = "POST"
    /\ \/ req.type \notin {"unparsable", "url_verification", "event_callback"}
       \/ req.type = "event_callback" /\ ~req.team

\* C28: an Events API callback with an unexpected payload is answered, once,
\* with an HTTP error status
UnexpectedPayloadAnswered ==
    UnexpectedPayload(wreq) /\ HookSettled =>
        /\ Len(wres.heads) = 1
        /\ wres.heads[1].code >= 400
        /\ wres.ends = 1

\* a legacy webhook POST .../post whose URL carries an inbound id
IsLegacyPost(req) ==
    /\ IsWebhook(req)
    /\ req.method = "POST"
    /\ GetUrlParts(req.url) # IncorrectFormat
    /\ GetUrlParts(req.url).path = Post

\* the calls of handlePost: the room update, the counter, the history lookup,
\* the replacement of mentions and the hand-off to the room
PostCalls ==
    { "setSlackChannelName", "upsertRoom", "lookupMessage", "doChannelUserReplacements",
      "onSlackMessage" }

\* C29: a legacy webhook POST whose inbound id resolves to no room is
\* answered once with status 200, its timer is ended once as dropped, and
\* nothing is done for any room: no room update, no history lookup, no hand-off
UnknownRoomDropped ==
    IsLegacyPost(wreq) /\ ~wreq.bound =>
        /\ wpc = "done"
        /\ Len(wres.heads) = 1 /\ wres.heads[1].code = 200 /\ wres.ends = 1
        /\ wtimer = << "dropped" >>
        /\ \A i \in 1..Len(wcalls) : wcalls[i] \notin PostCalls

UnknownRoomDroppedWitness ==
    /\ IsLegacyPost(wreq) /\ ~wreq.bound
    /\ wpost.user_id = "U1A" /\ wpost.text /\ wpost.client
    /\ wpc = "done"
    /\ wtimer = << "dropped" >>

\* C30: a legacy webhook post of the user USLACKBOT to a bridged room is not
\* relayed: handlePost does not hand it to the room, makes no history lookup
\* and does not increment the received-message counter, whether or not the
\* room has a client
SlackbotNotRelayed ==
    IsLegacyPost(wreq) /\ wreq.bound /\ wpost.user_id = "USLACKBOT" =>
        /\ \A i \in 1..Len(wcalls) :
               wcalls[i] \notin {"incCounter", "lookupMessage", "doChannelUserReplacements",
                                 "onSlackMessage"}
        /\ wpc \in {"upsertRoom", "done"}

SlackbotNotRelayedWitness ==
    /\ IsLegacyPost(wreq) /\ wreq.bound /\ wpost.user_id = "USLACKBOT"
    /\ wpost.client /\ wpost.text /\ wpost.dirty
    /\ wcalls = << "setSlackChannelName", "upsertRoom" >>
    /\ wpc = "done"
    /\ wtimer = << "success" >>

\* C31: for a room that has a client, a post whose history lookup misses is
\* still relayed: the lookup is not what fails the post, and handlePost goes
\* on to the replacement of mentions and the hand-off to the room
LookupMissRelayed ==
    wlookup = Miss =>
        /\ Made("doChannelUserReplacements") = 1
        /\ wpc = "done" /\ wtimer = << "success" >> => Made("onSlackMessage") = 1

\* C32: when the message looked up is a file share and making its file
\* shareable or fetching its content fails, lookupMessage does not throw: it
\* returns that message, without content
FileFailureFallsBack ==
    lpc = "end" /\ (lshare = "failed" \/ lfetch = "failed") =>
        /\ lresult.status = "returned"
        /\ lresult.content = NONE
        /\ lresult.message.subtype = << "file_share" >>
        /\ lresult.message.text = lresp.messages[1].text

\* the file was made shareable and the fetch of its content failed
FileFailureFallsBackWitness ==
    /\ lpc = "end"
    /\ lshare = "ok" /\ lfetch = "failed"
    /\ lresult.status = "returned"
    /\ lresult.content = NONE

\* C33: after a successful code exchange of the account-linking flow the
\* team limit is enforced exactly when the exchange yielded a bot token: with
\* a bot token willExceedTeamLimit is asked; with a user-level token only it
\* is not asked, the request is not rejected for the team limit, and
\* setUserAccessToken has been called by the time the request ends
TeamLimitOnlyForBots ==
    hreq.caller = "token" /\ hresp.kind = "ok" =>
        /\ hresp.bot => "willExceedTeamLimit" \in Range(hcalls)
        /\ ~hresp.bot =>
              /\ "willExceedTeamLimit" \notin Range(hcalls)
              /\ ~limitHit
              /\ hresult # TeamLimitPage
              /\ hpc = "end" => "setUserAccessToken" \in Range(hcalls)

\* the position of a call among the calls of the request, 0 when not made
CallIndex(call) ==
    IF call \in Range(hcalls)
    THEN CHOOSE i \in 1..Len(hcalls) : hcalls[i] = call
    ELSE 0

\* C34: in an account-linking authorize the user access token is persisted
\* before the team is upserted; the team is upserted only when a bot token
\* was granted; when persisting the user token fails the team is not upserted
\* and the result is the 403 failure page; a room-bound authorize persists
\* neither
TokenBeforeTeam ==
    /\ "upsertTeamByToken" \in Range(hcalls) =>
           /\ hresp.bot
           /\ tokenWrite = "ok"
           /\ 0 < CallIndex("setUserAccessToken")
           /\ CallIndex("setUserAccessToken") < CallIndex("upsertTeamByToken")
           /\ [user |-> hreq.user, team |-> hresp.team_id, botless |-> FALSE] \in accessTokens
    /\ tokenWrite = "failed" =>
           /\ "upsertTeamByToken" \notin Range(hcalls)
           /\ hpc = "end"
           /\ hresult = FailedPage("token") /\ hresult.code = 403
    /\ hreq.caller = "room" =>
           /\ "setUserAccessToken" \notin Range(hcalls)
           /\ "upsertTeamByToken" \notin Range(hcalls)
           /\ tokenWrite = "none"

\* a bot token was granted, the user token was persisted and then the team
\* upserted, and the request ended with the success page
TokenBeforeTeamWitness ==
    /\ hpc = "end"
    /\ hresp.bot
    /\ tokenWrite = "ok"
    /\ hcalls = << "exchangeCodeForToken", "willExceedTeamLimit", "setUserAccessToken",
                   "upsertTeamByToken" >>
    /\ hresp.team_id \in teams
    /\ hresult = SuccessPage("token")

\* C35: not-found conditions are tagged dropped: a GET .../authorize whose
\* pre-auth token resolves to no pending user, and a post whose history
\* lookup finds no message, each end the request timer once, with outcome
\* dropped
NotFoundDropped ==
    wpc = "done" =>
        /\ IsWebhook(wreq) /\ wres.body = << TokenUnknownPage.html >> =>
               wtimer = << "dropped" >>
        /\ wlookup = Miss => wtimer = << "dropped" >>

\* no call of ensureSchema is between two of its awaits
SchemaAtRest == epc \in {"idle", "done", "failed"}

\* C36: each migration step is atomic: whenever ensureSchema is not running,
\* also after it failed in a migration script or in the version write, the
\* stored schema version is the number of migrations applied to the database,
\* and no migration has been applied twice
MigrationStepAtomic ==
    /\ SchemaAtRest => schemaVersion = Len(applied)
    /\ \A i, j \in 1..Len(applied) : applied[i] = applied[j] => i = j

\* an update() call, or the updateFromISlackUser call, is between its start
\* and its completion
UpdateRunning(c) == upc[c] = "awaiting"
FromUserRunning == fpc \notin {"idle", "done", "failed"}

\* it is awaiting a call that changes the profile on the local platform
UpdateMutating(c) == dpc[c] = "setDisplayName" \/ apc[c] \in {"uploadContent", "setAvatarUrl"}
FromUserMutating == fpc \in {"setDisplayname", "uploadContent", "setAvatarUrl"}

\* C37: profile updates of a ghost are serialized across update() and
\* updateFromISlackUser(): at no time are two of them both between their
\* start and their completion while one of them is issuing a call that
\* changes the profile on the local platform
ProfileUpdatesSerialized ==
    /\ Cardinality({ c \in Calls : UpdateRunning(c) }) <= 1
    /\ \A c \in Calls :
          ~(/\ UpdateRunning(c)
            /\ FromUserRunning
            /\ UpdateMutating(c) \/ FromUserMutating)

\* the ghost is idle after its one update() so far, in which neither the
\* displayname sync nor the avatar sync failed
IdleAfterCleanUpdate ==
    /\ ~updateInProgress
    /\ upc[1] = "done"
    /\ \A c \in Calls \ {1} : upc[c] = "new"
    /\ prev.dnOk /\ prev.avOk

\* what getUser reads for the ghost
StoredGhost == GetUser(users, GhostIdentity.userId)

\* C38: whenever the ghost is idle after an update() in which no collaborator
\* call failed, the entry stored for it holds the ghost's display name and
\* avatar hash, whatever order the two upsertUser writes of the update
\* completed in
StoredProfileCurrent ==
    IdleAfterCleanUpdate /\ StoredGhost.result = "entry" =>
        /\ StoredGhost.entry.display_name = displayname
        /\ StoredGhost.entry.avatar_url = avatarHash

\* the days upsertActivityMetrics is called with
CalledDays == { IF d = NoDate THEN Today ELSE d : d \in ActivityDates }

\* C39: upsertActivityMetrics stores the activity fact under the calendar day
\* of its date: the call does not fail, the day stored is the year, month and
\* day of the date, and two dates on different days are stored as different
\* days
ActivityStoredUnderDay ==
    /\ alast # NoActivityCall =>
           /\ ~alast.threw
           /\ alast.stored = alast.date
    /\ \A d1, d2 \in CalledDays :
           d1 # d2 => PgDate(DateText(d1)) # PgDate(DateText(d2))
              \/ PgDate(DateText(d1)) = BadDate

\* the entries getAllRooms returns for an id
RoomsWithId(id) == { e \in GetAllRooms(roomRows) : e.id = id }

\* C40: upsertRoom on an id that is already stored replaces the remote state
\* only: getAllRooms returns, for every id stored, one room with the
\* matrix_id and remote_id of the first upsertRoom made for the id and the
\* remote state of the latest, and an upsertRoom on a stored id leaves the
\* number of rooms as it was
UpsertRoomKeepsIds ==
    /\ \A id \in RoomEntryIds :
          IF rfirst[id] = NoRoomEntry THEN RoomsWithId(id) = {}
          ELSE RoomsWithId(id) =
                  { RoomEntry(id, rfirst[id].matrix_id, rfirst[id].remote_id,
                              rlatest[id].remote) }
    /\ (~rlast.threw /\ \E r \in rlast.before : r.id = rlast.entry.id) =>
          Cardinality(GetAllRooms(roomRows)) = Cardinality(rlast.before)

\* a room was stored and then upserted with another matrix_id, another
\* remote_id and another remote state
UpsertRoomKeepsIdsWitness ==
    \E id \in RoomEntryIds :
       /\ rlast.entry.id = id /\ ~rlast.threw
       /\ \E r \in rlast.before : r.id = id
       /\ rfirst[id].matrix_id # rlatest[id].matrix_id
       /\ rfirst[id].remote_id # rlatest[id].remote_id
       /\ rfirst[id].remote # rlatest[id].remote
       /\ \E e \in RoomsWithId(id) :
             e.matrix_id = rfirst[id].matrix_id /\ e.remote.name = rlatest[id].remote.name

====
